---- MODULE Spec2Model ----
(***************************************************************************)
(* A model of the MoviAgent transport assistant: the Domain Store          *)
(* (src/db.py), the tool catalog and decision graph (src/movi_agent.py)    *)
(* and the chat session handler (src/app.py).                              *)
(*                                                                         *)
(* The store is one value, db, holding every table as a set of rows, the   *)
(* AUTOINCREMENT counters and the schema.  Each store function of          *)
(* src/db.py is an operator from (store, arguments) to the pair            *)
(* [db |-> store after the call, result |-> returned text].  Returned      *)
(* texts are tuples of the fragments of the f-string that builds them.     *)
(***************************************************************************)
EXTENDS Integers, Sequences, FiniteSets, TLC

VARIABLES
    db,            \* the SQLite database movi.db
    last,          \* the last dispatched invocation and the text it returned
    chat_history,  \* st.session_state["chat_history"]
    pc,            \* where the turn handler is: "idle", or in graph.invoke at node "agent", "tools" or at "end"
    messages,      \* MoviState.messages of the running graph
    current_page,  \* MoviState.current_page of the running graph
    reasons,       \* how many times _agent_node ran in this turn
    dispatches,    \* how many tool calls the tools node ran in this turn
    request,       \* what _agent_node last passed to the reasoning capability
    running        \* per session: the store function it is running, statement by statement

store == <<db, last>>

conversation == <<chat_history, pc, messages, current_page, reasons, dispatches, request>>

session == <<conversation, running>>

vars == <<db, last, chat_history, pc, messages, current_page, reasons, dispatches, request, running>>

-----------------------------------------------------------------------------
(* SQL values *)

\* SQL NULL / Python None; a present value v of a nullable column is <<v>>
NULL == <<>>

Val(v) == <<v>>

\* str(x) of a nullable text value inside an f-string
Str(x) == IF x = NULL THEN "None" ELSE x[1]

\* a text stored in a column declared REAL: SQLite keeps a text that is no number as text
Text(v) == <<v, "TEXT">>

IsText(x) == Len(x) = 2

\* str(n) of a small non-negative integer
IntStr(n) == <<"0", "1", "2", "3", "4", "5", "6", "7", "8", "9">>[n + 1]

\* str(x) of a REAL column value inside an f-string
RealStr(x) ==
    IF x = NULL THEN "None"
    ELSE IF IsText(x) THEN x[1]
    ELSE IF x[1] < 10 THEN IntStr(x[1]) \o ".0"
    ELSE IntStr(x[1] \div 10) \o IntStr(x[1] % 10) \o ".0"

\* the row a cursor's fetchone() yields: the matching row of least rowid
FetchOne(rows, key) == CHOOSE r \in rows : \A q \in rows : r[key] <= q[key]

\* ORDER BY k1, rows of equal k1 in rowid (k2) order
RECURSIVE OrderBy(_, _, _)
OrderBy(rows, k1, k2) ==
    IF rows = {} THEN <<>>
    ELSE LET r == CHOOSE x \in rows : \A y \in rows : x[k1] < y[k1] \/ (x[k1] = y[k1] /\ x[k2] <= y[k2])
         IN  <<r>> \o OrderBy(rows \ {r}, k1, k2)

\* whether a returned text holds the fragment
Contains(text, fragment) == \E i \in 1..Len(text) : text[i] = fragment

\* a call that returns text, leaving the store S
Ret(S, text) == [db |-> S, result |-> text, raised |-> FALSE]

\* a call that raises: nothing was committed, so the store stays S
Raise(S, exception) == [db |-> S, result |-> exception, raised |-> TRUE]

-----------------------------------------------------------------------------
(* Seed data of _seed_if_empty *)

SeedStops ==
    { [stop_id |-> 1, name |-> "Gavipuram", latitude |-> Val("12.942"), longitude |-> Val("77.566")],
      [stop_id |-> 2, name |-> "Temple",    latitude |-> Val("12.945"), longitude |-> Val("77.568")],
      [stop_id |-> 3, name |-> "Peenya",    latitude |-> Val("13.020"), longitude |-> Val("77.515")],
      [stop_id |-> 4, name |-> "Majestic",  latitude |-> Val("12.978"), longitude |-> Val("77.572")],
      [stop_id |-> 5, name |-> "Tech Park", latitude |-> Val("12.997"), longitude |-> Val("77.700")] }

SeedPaths ==
    { [path_id |-> 1, path_name |-> "Path-1"],
      [path_id |-> 2, path_name |-> "Path-2"] }

SeedPathStops ==
    { [id |-> 1, path_id |-> 1, stop_id |-> 1, seq |-> 1],
      [id |-> 2, path_id |-> 1, stop_id |-> 2, seq |-> 2],
      [id |-> 3, path_id |-> 1, stop_id |-> 3, seq |-> 3],
      [id |-> 4, path_id |-> 2, stop_id |-> 3, seq |-> 1],
      [id |-> 5, path_id |-> 2, stop_id |-> 4, seq |-> 2],
      [id |-> 6, path_id |-> 2, stop_id |-> 5, seq |-> 3] }

SeedRoutes ==
    { [route_id |-> 1, path_id |-> 1, route_display_name |-> "Path-1 - 08:30", shift_time |-> "08:30",
       direction |-> "IN", start_point |-> "Gavipuram", end_point |-> "Peenya", status |-> "active"],
      [route_id |-> 2, path_id |-> 1, route_display_name |-> "Path-1 - 19:45", shift_time |-> "19:45",
       direction |-> "OUT", start_point |-> "Gavipuram", end_point |-> "Peenya", status |-> "active"],
      [route_id |-> 3, path_id |-> 2, route_display_name |-> "Path-2 - 19:45", shift_time |-> "19:45",
       direction |-> "IN", start_point |-> "Peenya", end_point |-> "Tech Park", status |-> "active"] }

SeedVehicles ==
    { [vehicle_id |-> 1, license_plate |-> "KA-01-1111", type |-> "Bus", capacity |-> 40],
      [vehicle_id |-> 2, license_plate |-> "MH-12-3456", type |-> "Bus", capacity |-> 40],
      [vehicle_id |-> 3, license_plate |-> "KA-05-9999", type |-> "Cab", capacity |-> 4] }

SeedDrivers ==
    { [driver_id |-> 1, name |-> "Amit",  phone_number |-> "9999990001"],
      [driver_id |-> 2, name |-> "Rahul", phone_number |-> "9999990002"],
      [driver_id |-> 3, name |-> "Sneha", phone_number |-> "9999990003"] }

SeedTrips ==
    { [trip_id |-> 1, route_id |-> 1, display_name |-> "Bulk - 00:01",
       booking_status_percentage |-> Val(25), live_status |-> "00:01 IN"],
      [trip_id |-> 2, route_id |-> 1, display_name |-> "Bulk - 00:02",
       booking_status_percentage |-> Val(0), live_status |-> "00:02 IN"],
      [trip_id |-> 3, route_id |-> 3, display_name |-> "Path Path - 00:02",
       booking_status_percentage |-> Val(10), live_status |-> "00:02 OUT"] }

SeedDeployments ==
    { [deployment_id |-> 1, trip_id |-> 1, vehicle_id |-> Val(1), driver_id |-> Val(1)],
      [deployment_id |-> 2, trip_id |-> 3, vehicle_id |-> Val(2), driver_id |-> Val(2)] }

\* the CREATE TABLE statements of init_db: table |-> its columns
SeedSchema ==
    [t \in {"stops", "paths", "path_stops", "routes", "vehicles", "drivers", "daily_trips", "deployments"} |->
        CASE t = "stops"       -> {"stop_id", "name", "latitude", "longitude"}
          [] t = "paths"       -> {"path_id", "path_name"}
          [] t = "path_stops"  -> {"id", "path_id", "stop_id", "seq"}
          [] t = "routes"      -> {"route_id", "path_id", "route_display_name", "shift_time", "direction",
                                   "start_point", "end_point", "status"}
          [] t = "vehicles"    -> {"vehicle_id", "license_plate", "type", "capacity"}
          [] t = "drivers"     -> {"driver_id", "name", "phone_number"}
          [] t = "daily_trips" -> {"trip_id", "route_id", "display_name", "booking_status_percentage", "live_status"}
          [] t = "deployments" -> {"deployment_id", "trip_id", "vehicle_id", "driver_id"}]

\* sqlite_sequence after seeding: the last AUTOINCREMENT id of each table the operations insert into
SeedSequence ==
    [t \in {"stops", "paths", "path_stops", "routes", "deployments"} |->
        CASE t = "stops"       -> Cardinality(SeedStops)
          [] t = "paths"       -> Cardinality(SeedPaths)
          [] t = "path_stops"  -> Cardinality(SeedPathStops)
          [] t = "routes"      -> Cardinality(SeedRoutes)
          [] t = "deployments" -> Cardinality(SeedDeployments)]

\* movi.db after init_db
SeedDb ==
    [ stops       |-> SeedStops,
      paths       |-> SeedPaths,
      path_stops  |-> SeedPathStops,
      routes      |-> SeedRoutes,
      vehicles    |-> SeedVehicles,
      drivers     |-> SeedDrivers,
      daily_trips |-> SeedTrips,
      deployments |-> SeedDeployments,
      sequence    |-> SeedSequence,
      schema      |-> SeedSchema ]

\* the AUTOINCREMENT id of the next row inserted into the table
NextId(S, table) == S.sequence[table] + 1

-----------------------------------------------------------------------------
(* assign_vehicle_and_driver *)

\* SELECT deployment_id FROM deployments WHERE trip_id = ?
DeploymentsOfTrip(S, trip_id) == {dep \in S.deployments : dep.trip_id = trip_id}

\* a faulty UPDATE that sets the vehicle and leaves the driver
UpdatedDeployment_VehicleOnly(existing, vehicle_id, driver_id) ==
    [existing EXCEPT !.vehicle_id = Val(vehicle_id)]

\* a faulty UPDATE that sets the vehicle and clears the driver
UpdatedDeployment_DriverCleared(existing, vehicle_id, driver_id) ==
    [existing EXCEPT !.vehicle_id = Val(vehicle_id), !.driver_id = NULL]

\* UPDATE deployments SET vehicle_id = ?, driver_id = ? WHERE deployment_id = ?
UpdatedDeployment(existing, vehicle_id, driver_id) ==
    [existing EXCEPT !.vehicle_id = Val(vehicle_id), !.driver_id = Val(driver_id)]

\* a faulty assignment that looks the driver up before the vehicle
assign_vehicle_and_driver_DriverFirst(S, trip_display_name, vehicle_plate, driver_name) ==
    LET trips    == {t \in S.daily_trips : t.display_name = trip_display_name}
        vehicles == {v \in S.vehicles : v.license_plate = vehicle_plate}
        drivers  == {d \in S.drivers : d.name = driver_name}
    IN  IF trips = {} THEN Ret(S, <<"Trip '", trip_display_name, "' not found.">>)
        ELSE IF drivers = {} THEN Ret(S, <<"Driver '", driver_name, "' not found.">>)
        ELSE IF vehicles = {} THEN Ret(S, <<"Vehicle '", vehicle_plate, "' not found.">>)
        ELSE
        LET trip     == FetchOne(trips, "trip_id")
            vehicle  == FetchOne(vehicles, "vehicle_id")
            driver   == FetchOne(drivers, "driver_id")
            matching == DeploymentsOfTrip(S, trip.trip_id)
        IN  IF matching # {}
            THEN LET existing == FetchOne(matching, "deployment_id")
                     updated  == UpdatedDeployment(existing, vehicle.vehicle_id, driver.driver_id)
                 IN  Ret([S EXCEPT !.deployments =
                              {IF dep.deployment_id = existing.deployment_id THEN updated ELSE dep
                                  : dep \in S.deployments}],
                         <<"Updated deployment: trip '", trip_display_name, "' now uses vehicle ",
                           vehicle_plate, " with driver ", driver_name, ".">>)
            ELSE LET row == [deployment_id |-> NextId(S, "deployments"), trip_id |-> trip.trip_id,
                             vehicle_id |-> Val(vehicle.vehicle_id), driver_id |-> Val(driver.driver_id)]
                 IN  \* deployments.trip_id is UNIQUE; the function catches no IntegrityError
                     IF \E dep \in S.deployments : dep.trip_id = row.trip_id
                     THEN Raise(S, <<"IntegrityError: ", "UNIQUE constraint failed: deployments.trip_id">>)
                     ELSE Ret([S EXCEPT !.deployments = @ \cup {row},
                                        !.sequence["deployments"] = row.deployment_id],
                              <<"Assigned vehicle ", vehicle_plate, " and driver ", driver_name,
                                " to trip '", trip_display_name, "'.">>)

\* assign_vehicle_and_driver: trip, vehicle and driver are looked up in that order
assign_vehicle_and_driver(S, trip_display_name, vehicle_plate, driver_name) ==
    LET trips    == {t \in S.daily_trips : t.display_name = trip_display_name}
        vehicles == {v \in S.vehicles : v.license_plate = vehicle_plate}
        drivers  == {d \in S.drivers : d.name = driver_name}
    IN  IF trips = {} THEN Ret(S, <<"Trip '", trip_display_name, "' not found.">>)
        ELSE IF vehicles = {} THEN Ret(S, <<"Vehicle '", vehicle_plate, "' not found.">>)
        ELSE IF drivers = {} THEN Ret(S, <<"Driver '", driver_name, "' not found.">>)
        ELSE
        LET trip     == FetchOne(trips, "trip_id")
            vehicle  == FetchOne(vehicles, "vehicle_id")
            driver   == FetchOne(drivers, "driver_id")
            matching == DeploymentsOfTrip(S, trip.trip_id)
        IN  IF matching # {}
            THEN LET existing == FetchOne(matching, "deployment_id")
                     updated  == UpdatedDeployment(existing, vehicle.vehicle_id, driver.driver_id)
                 IN  Ret([S EXCEPT !.deployments =
                              {IF dep.deployment_id = existing.deployment_id THEN updated ELSE dep
                                  : dep \in S.deployments}],
                         <<"Updated deployment: trip '", trip_display_name, "' now uses vehicle ",
                           vehicle_plate, " with driver ", driver_name, ".">>)
            ELSE LET row == [deployment_id |-> NextId(S, "deployments"), trip_id |-> trip.trip_id,
                             vehicle_id |-> Val(vehicle.vehicle_id), driver_id |-> Val(driver.driver_id)]
                 IN  \* deployments.trip_id is UNIQUE; the function catches no IntegrityError
                     IF \E dep \in S.deployments : dep.trip_id = row.trip_id
                     THEN Raise(S, <<"IntegrityError: ", "UNIQUE constraint failed: deployments.trip_id">>)
                     ELSE Ret([S EXCEPT !.deployments = @ \cup {row},
                                        !.sequence["deployments"] = row.deployment_id],
                              <<"Assigned vehicle ", vehicle_plate, " and driver ", driver_name,
                                " to trip '", trip_display_name, "'.">>)

-----------------------------------------------------------------------------
(* remove_vehicle_from_trip *)

\* LEFT JOIN vehicles: the plate of the deployment's vehicle, NULL when it has none
PlateOf(S, dep) ==
    LET vs == {v \in S.vehicles : Val(v.vehicle_id) = dep.vehicle_id}
    IN  IF vs = {} THEN NULL ELSE Val(FetchOne(vs, "vehicle_id").license_plate)

\* LEFT JOIN drivers: the name of the deployment's driver, NULL when it has none
DriverOf(S, dep) ==
    LET ds == {d \in S.drivers : Val(d.driver_id) = dep.driver_id}
    IN  IF ds = {} THEN NULL ELSE Val(FetchOne(ds, "driver_id").name)

\* daily_trips JOIN routes WHERE display_name = ?
TripsOnRoutes(S, trip_display_name) ==
    {t \in S.daily_trips : /\ t.display_name = trip_display_name
                           /\ \E r \in S.routes : r.route_id = t.route_id}

RouteNameOf(S, trip) ==
    FetchOne({r \in S.routes : r.route_id = trip.route_id}, "route_id").route_display_name

\* booking = trip["booking_status_percentage"] or 0.0
BookingOf(trip) ==
    IF trip.booking_status_percentage = NULL THEN Val(0) ELSE trip.booking_status_percentage

\* a faulty gate that ignores the force flag
GateWarns_ForceIgnored(booking, force) == booking[1] > 0

\* a faulty gate that stops the forced call and lets the unforced one through
GateWarns_ForceInverted(booking, force) == booking[1] > 0 /\ force

\* a faulty gate that also stops a trip nobody has booked
GateWarns_ZeroBlocked(booking, force) == booking[1] >= 0 /\ ~force

\* a faulty gate that lets the forced call through only once the conversation holds a warning
GateWarns_UntilWarned(booking, force) ==
    /\ booking[1] > 0
    /\ ~(force /\ \E i \in 1..Len(messages) :
                      messages[i].type = "tool" /\ Contains(messages[i].content, "WARNING: "))

\* the gate: booking > 0 and not force
GateWarns(booking, force) == booking[1] > 0 /\ ~force

remove_vehicle_from_trip(S, trip_display_name, force) ==
    LET trips == TripsOnRoutes(S, trip_display_name)
    IN  IF trips = {} THEN Ret(S, <<"Trip '", trip_display_name, "' not found.">>)
        ELSE
        LET trip == FetchOne(trips, "trip_id")
            deps == DeploymentsOfTrip(S, trip.trip_id)
        IN  IF deps = {}
            THEN Ret(S, <<"No vehicle is currently assigned to trip '", trip_display_name, "'.">>)
            ELSE
            LET dep     == FetchOne(deps, "deployment_id")
                booking == BookingOf(trip)
            IN  IF IsText(booking)
                THEN Raise(S, <<"TypeError: '>' not supported between instances of 'str' and 'int'">>)
                ELSE IF GateWarns(booking, force)
                THEN Ret(S, <<"WARNING: ", "Trip '", trip.display_name, "' on route '",
                              RouteNameOf(S, trip), "' is already ~", RealStr(booking), "% booked. ",
                              "Removing the vehicle will cancel these bookings and the trip-sheet will fail to generate. ",
                              "Ask the user for a yes/no confirmation. If they confirm, call this again with force=true.">>)
                ELSE Ret([S EXCEPT !.deployments =
                              {d \in S.deployments : d.deployment_id # dep.deployment_id}],
                         <<"Removed vehicle '", Str(PlateOf(S, dep)), "' and driver '",
                           Str(DriverOf(S, dep)), "' from trip '", trip_display_name, "'.">>)

-----------------------------------------------------------------------------
(* create_stop, create_path, create_route *)

\* " → ".join(names), as the tuple of its pieces
RECURSIVE ArrowJoin(_)
ArrowJoin(names) ==
    IF Len(names) = 0 THEN <<>>
    ELSE IF Len(names) = 1 THEN <<names[1]>>
    ELSE <<names[1], " → ">> \o ArrowJoin(Tail(names))

\* the UNIQUE constraint of stops.name: the INSERT raises IntegrityError
StopNameTaken(S, name) == \E s \in S.stops : s.name = name

create_stop(S, name, latitude, longitude) ==
    IF StopNameTaken(S, name)
    THEN Ret(S, <<"Stop '", name, "' already exists.">>)
    ELSE LET row == [stop_id |-> NextId(S, "stops"), name |-> name,
                     latitude |-> latitude, longitude |-> longitude]
         IN  Ret([S EXCEPT !.stops = @ \cup {row}, !.sequence["stops"] = row.stop_id],
                 <<"Created new stop '", name, "'.">>)

\* a faulty loop that inserts a stop for every name of the list, stored or not
RECURSIVE InsertPathStops_AlwaysInserts(_, _, _, _)
InsertPathStops_AlwaysInserts(S, path_id, stop_names, seq) ==
    IF seq > Len(stop_names) THEN S
    ELSE
    LET stop_id == NextId(S, "stops")
        S1  == [S EXCEPT !.stops = @ \cup {[stop_id |-> stop_id, name |-> stop_names[seq],
                                            latitude |-> NULL, longitude |-> NULL]},
                         !.sequence["stops"] = stop_id]
        row == [id |-> NextId(S1, "path_stops"), path_id |-> path_id, stop_id |-> stop_id, seq |-> seq]
        S2  == [S1 EXCEPT !.path_stops = @ \cup {row}, !.sequence["path_stops"] = row.id]
    IN  InsertPathStops_AlwaysInserts(S2, path_id, stop_names, seq + 1)

\* the loop of create_path over enumerate(stop_names, start=1), from position seq on
RECURSIVE InsertPathStops(_, _, _, _)
InsertPathStops(S, path_id, stop_names, seq) ==
    IF seq > Len(stop_names) THEN S
    ELSE
    LET s_name == stop_names[seq]
        found  == {s \in S.stops : s.name = s_name}
        S1     == IF found = {}
                  THEN [S EXCEPT !.stops = @ \cup {[stop_id |-> NextId(S, "stops"), name |-> s_name,
                                                    latitude |-> NULL, longitude |-> NULL]},
                                 !.sequence["stops"] = NextId(S, "stops")]
                  ELSE S
        stop_id == IF found = {} THEN NextId(S, "stops") ELSE FetchOne(found, "stop_id").stop_id
        row     == [id |-> NextId(S1, "path_stops"), path_id |-> path_id, stop_id |-> stop_id, seq |-> seq]
        S2      == [S1 EXCEPT !.path_stops = @ \cup {row}, !.sequence["path_stops"] = row.id]
    IN  InsertPathStops(S2, path_id, stop_names, seq + 1)

\* a paths table without the UNIQUE constraint on path_name
PathNameTaken_Never(S, path_name) == FALSE

\* the UNIQUE constraint of paths.path_name: the INSERT raises IntegrityError
PathNameTaken(S, path_name) == \E p \in S.paths : p.path_name = path_name

\* a faulty create_path that accepts an empty stop list
create_path_EmptyAllowed(S, path_name, stop_names) ==
    IF PathNameTaken(S, path_name) THEN Ret(S, <<"Path '", path_name, "' already exists.">>)
    ELSE LET path_id == NextId(S, "paths")
             S1 == [S EXCEPT !.paths = @ \cup {[path_id |-> path_id, path_name |-> path_name]},
                             !.sequence["paths"] = path_id]
         IN  Ret(InsertPathStops(S1, path_id, stop_names, 1),
                 <<"Created path '", path_name, "' with stops: ">> \o ArrowJoin(stop_names))

\* create_path: the path row, then one path_stops row per stop name, committed together
create_path(S, path_name, stop_names) ==
    IF Len(stop_names) = 0 THEN Ret(S, <<"Need at least one stop to create a path.">>)
    ELSE IF PathNameTaken(S, path_name) THEN Ret(S, <<"Path '", path_name, "' already exists.">>)
    ELSE LET path_id == NextId(S, "paths")
             S1 == [S EXCEPT !.paths = @ \cup {[path_id |-> path_id, path_name |-> path_name]},
                             !.sequence["paths"] = path_id]
         IN  Ret(InsertPathStops(S1, path_id, stop_names, 1),
                 <<"Created path '", path_name, "' with stops: ">> \o ArrowJoin(stop_names))

\* a faulty query that orders the stops of a path by seq descending
StopNamesOfPath_Descending(S, path_id) ==
    LET rows == OrderBy({[seq |-> pr[1].seq, id |-> pr[1].id, name |-> pr[2].name]
                            : pr \in {x \in S.path_stops \X S.stops :
                                         x[1].path_id = path_id /\ x[1].stop_id = x[2].stop_id}},
                        "seq", "id")
    IN  [i \in 1..Len(rows) |-> rows[Len(rows) + 1 - i].name]

\* path_stops JOIN stops WHERE path_id = ? ORDER BY seq: the stop names of a path, in order
StopNamesOfPath(S, path_id) ==
    LET rows == OrderBy({[seq |-> pr[1].seq, id |-> pr[1].id, name |-> pr[2].name]
                            : pr \in {x \in S.path_stops \X S.stops :
                                         x[1].path_id = path_id /\ x[1].stop_id = x[2].stop_id}},
                        "seq", "id")
    IN  [i \in 1..Len(rows) |-> rows[i].name]

\* f"{path_name} - {shift_time}"
RouteDisplayName(path_name, shift_time) == path_name \o " - " \o shift_time

\* a routes table without the UNIQUE constraint on route_display_name
RouteNameTaken_Never(S, route_display_name) == FALSE

\* the UNIQUE constraint of routes.route_display_name: the INSERT raises IntegrityError
RouteNameTaken(S, route_display_name) == \E r \in S.routes : r.route_display_name = route_display_name

create_route(S, path_name, shift_time, direction) ==
    LET found == {p \in S.paths : p.path_name = path_name}
    IN  IF found = {} THEN Ret(S, <<"Path '", path_name, "' not found, cannot create route.">>)
        ELSE
        LET path_id == FetchOne(found, "path_id").path_id
            names   == StopNamesOfPath(S, path_id)
        IN  IF Len(names) = 0
            THEN Ret(S, <<"Path '", path_name, "' has no stops configured, cannot create route.">>)
            ELSE
            LET start_point == names[1]
                end_point   == names[Len(names)]
                route_display_name == RouteDisplayName(path_name, shift_time)
                row == [route_id |-> NextId(S, "routes"), path_id |-> path_id,
                        route_display_name |-> route_display_name, shift_time |-> shift_time,
                        direction |-> direction, start_point |-> start_point,
                        end_point |-> end_point, status |-> "active"]
            IN  IF RouteNameTaken(S, route_display_name)
                THEN Ret(S, <<"Route '", route_display_name, "' already exists.">>)
                ELSE Ret([S EXCEPT !.routes = @ \cup {row}, !.sequence["routes"] = row.route_id],
                         <<"Created route '", route_display_name, "' (", direction, ") from ",
                           start_point, " to ", end_point, ".">>)

-----------------------------------------------------------------------------
(* Read-only store functions *)

\* the text values ORDER BY compares, in SQLite's BINARY collation order
Collation == <<"08:30", "09:00", "19:45", "Amit", "Rahul", "Sneha">>

TextRank(s) == CHOOSE i \in 1..Len(Collation) : Collation[i] = s

\* sep.join(parts), as the tuple of its pieces
RECURSIVE Join(_, _)
Join(sep, parts) ==
    IF Len(parts) = 0 THEN <<>>
    ELSE IF Len(parts) = 1 THEN <<parts[1]>>
    ELSE <<parts[1], sep>> \o Join(sep, Tail(parts))

\* the concatenation of a tuple of texts
RECURSIVE Flatten(_)
Flatten(texts) == IF Len(texts) = 0 THEN <<>> ELSE texts[1] \o Flatten(Tail(texts))

\* a faulty count that takes every vehicle, deployed or not
count_unassigned_vehicles_Total(S) ==
    Ret(S, <<"There are ", IntStr(Cardinality(S.vehicles)), " vehicles not assigned to any trip right now.">>)

\* SELECT COUNT(*) FROM vehicles v WHERE NOT EXISTS (a deployment of v)
count_unassigned_vehicles(S) ==
    LET c == Cardinality({v \in S.vehicles :
                             ~\E d \in S.deployments : d.vehicle_id = Val(v.vehicle_id)})
    IN  Ret(S, <<"There are ", IntStr(c), " vehicles not assigned to any trip right now.">>)

list_unassigned_drivers(S) ==
    LET free  == {d \in S.drivers : ~\E dep \in S.deployments : dep.driver_id = Val(d.driver_id)}
        total == Cardinality(free)
        rows  == OrderBy({[rank |-> TextRank(d.name), driver_id |-> d.driver_id, name |-> d.name] : d \in free},
                         "rank", "driver_id")
        names == [i \in 1..Len(rows) |-> rows[i].name]
    IN  IF Len(names) = 0 THEN Ret(S, <<"All drivers are currently assigned.">>)
        ELSE Ret(S, <<"Unassigned drivers (", IntStr(total), "): ">> \o Join(", ", names))

get_trip_status(S, trip_display_name) ==
    LET trips == TripsOnRoutes(S, trip_display_name)
    IN  IF trips = {} THEN Ret(S, <<"Trip '", trip_display_name, "' not found.">>)
        ELSE
        LET trip  == FetchOne(trips, "trip_id")
            deps  == {dep \in S.deployments : dep.trip_id = trip.trip_id}
            plate == IF deps = {} THEN NULL ELSE PlateOf(S, FetchOne(deps, "deployment_id"))
            name  == IF deps = {} THEN NULL ELSE DriverOf(S, FetchOne(deps, "deployment_id"))
            assigned == IF plate # NULL
                        THEN <<"Vehicle ", Str(plate), " with driver ", Str(name)>>
                        ELSE <<"No vehicle/driver assigned">>
        IN  Ret(S, <<"Trip '", trip.display_name, "' is on route '", RouteNameOf(S, trip),
                     "', booking status ~", RealStr(trip.booking_status_percentage),
                     "%, live status '", trip.live_status, "'. ">> \o assigned \o <<".">>)

list_stops_for_path(S, path_name) ==
    LET found == {p \in S.paths : p.path_name = path_name}
    IN  IF found = {} THEN Ret(S, <<"Path '", path_name, "' not found.">>)
        ELSE LET stops == StopNamesOfPath(S, FetchOne(found, "path_id").path_id)
             IN  IF Len(stops) = 0 THEN Ret(S, <<"Path '", path_name, "' has no stops configured.">>)
                 ELSE Ret(S, <<"Stops on ", path_name, ": ">> \o ArrowJoin(stops))

list_routes_for_path(S, path_name) ==
    LET found == {p \in S.paths : p.path_name = path_name}
    IN  IF found = {} THEN Ret(S, <<"Path '", path_name, "' not found.">>)
        ELSE
        LET path_id == FetchOne(found, "path_id").path_id
            rows  == OrderBy({[rank |-> TextRank(r.shift_time), route_id |-> r.route_id, row |-> r]
                                 : r \in {x \in S.routes : x.path_id = path_id}}, "rank", "route_id")
            lines == [i \in 1..Len(rows) |->
                         <<"- ", rows[i].row.route_display_name, " (", rows[i].row.direction, " @ ",
                           rows[i].row.shift_time, ", ", rows[i].row.status, ")">>]
        IN  IF Len(rows) = 0 THEN Ret(S, <<"No routes use path '", path_name, "'.">>)
            ELSE Ret(S, <<"Routes using path '", path_name, "':\n">> \o Flatten(Join(<<"\n">>, lines)))

list_active_routes(S) ==
    LET rows  == OrderBy({[rank |-> TextRank(r.shift_time), route_id |-> r.route_id, row |-> r]
                             : r \in {x \in S.routes : x.status = "active"}}, "rank", "route_id")
        lines == [i \in 1..Len(rows) |->
                     <<"- ", rows[i].row.route_display_name, " (", rows[i].row.direction, " @ ",
                       rows[i].row.shift_time, ")">>]
    IN  IF Len(rows) = 0 THEN Ret(S, <<"There are no active routes.">>)
        ELSE Ret(S, <<"Active routes:\n">> \o Flatten(Join(<<"\n">>, lines)))

-----------------------------------------------------------------------------
(* dynamic_run_sql_query: the query text is the tuple of its characters *)

\* drop table stops
QDropStops ==
    <<"d", "r", "o", "p", " ", "t", "a", "b", "l", "e", " ", "s", "t", "o", "p", "s">>

\* update vehicles set capacity=0
QUpdateCapacity ==
    <<"u", "p", "d", "a", "t", "e", " ", "v", "e", "h", "i", "c", "l", "e", "s", " ", "s", "e", "t",
      " ", "c", "a", "p", "a", "c", "i", "t", "y", "=", "0">>

\* SELECT license_plate, type FROM vehicles
QSelectVehicles ==
    <<"S", "E", "L", "E", "C", "T", " ", "l", "i", "c", "e", "n", "s", "e", "_", "p", "l", "a", "t",
      "e", ",", " ", "t", "y", "p", "e", " ", "F", "R", "O", "M", " ", "v", "e", "h", "i", "c", "l",
      "e", "s">>

\* DELETE FROM deployments
QDeleteDeployments ==
    <<"D", "E", "L", "E", "T", "E", " ", "F", "R", "O", "M", " ", "d", "e", "p", "l", "o", "y", "m",
      "e", "n", "t", "s">>

\* ALTER<TAB>TABLE vehicles ADD COLUMN note TEXT
QAlterVehicles ==
    <<"A", "L", "T", "E", "R", "\t", "T", "A", "B", "L", "E", " ", "v", "e", "h", "i", "c", "l",
      "e", "s", " ", "A", "D", "D", " ", "C", "O", "L", "U", "M", "N", " ", "n", "o", "t", "e", " ",
      "T", "E", "X", "T">>

\* create table notes (x)
QCreateNotes ==
    <<"c", "r", "e", "a", "t", "e", " ", "t", "a", "b", "l", "e", " ", "n", "o", "t", "e", "s", " ",
      "(", "x", ")">>

\* update daily_trips set booking_status_percentage='full' where trip_id=1
QTextBooking ==
    <<"u", "p", "d", "a", "t", "e", " ", "d", "a", "i", "l", "y", "_", "t", "r", "i", "p", "s",
      " ", "s", "e", "t", " ", "b", "o", "o", "k", "i", "n", "g", "_", "s", "t", "a", "t", "u",
      "s", "_", "p", "e", "r", "c", "e", "n", "t", "a", "g", "e", "=", "'", "f", "u", "l", "l",
      "'", " ", "w", "h", "e", "r", "e", " ", "t", "r", "i", "p", "_", "i", "d", "=", "1">>

\* update daily_trips set booking_status_percentage=null where trip_id=2
QUnsetBooking ==
    <<"u", "p", "d", "a", "t", "e", " ", "d", "a", "i", "l", "y", "_", "t", "r", "i", "p", "s", " ",
      "s", "e", "t", " ", "b", "o", "o", "k", "i", "n", "g", "_", "s", "t", "a", "t", "u", "s", "_",
      "p", "e", "r", "c", "e", "n", "t", "a", "g", "e", "=", "n", "u", "l", "l", " ", "w", "h", "e",
      "r", "e", " ", "t", "r", "i", "p", "_", "i", "d", "=", "2">>

\* delete from trips
QDeleteTrips ==
    <<"d", "e", "l", "e", "t", "e", " ", "f", "r", "o", "m", " ", "t", "r", "i", "p", "s">>

\* PRAGMA foreign_keys = ON
QPragma ==
    <<"P", "R", "A", "G", "M", "A", " ", "f", "o", "r", "e", "i", "g", "n", "_", "k", "e", "y", "s",
      " ", "=", " ", "O", "N">>

\* delete from vehicles
QDeleteVehicles ==
    <<"d", "e", "l", "e", "t", "e", " ", "f", "r", "o", "m", " ", "v", "e", "h", "i", "c", "l", "e",
      "s">>

\* " Select 1; delete from deployments": a retrieval followed by a second statement
QSelectThenDelete ==
    <<" ", "S", "e", "l", "e", "c", "t", " ", "1", ";", " ", "d", "e", "l", "e", "t", "e", " ",
      "f", "r", "o", "m", " ", "d", "e", "p", "l", "o", "y", "m", "e", "n", "t", "s">>

\* select * from nope
QSelectMissing ==
    <<"s", "e", "l", "e", "c", "t", " ", "*", " ", "f", "r", "o", "m", " ", "n", "o", "p", "e">>

\* update daily_trips set booking_status_percentage=50 where trip_id=2
QBookTrip ==
    <<"u", "p", "d", "a", "t", "e", " ", "d", "a", "i", "l", "y", "_", "t", "r", "i", "p", "s",
      " ", "s", "e", "t", " ", "b", "o", "o", "k", "i", "n", "g", "_", "s", "t", "a", "t", "u",
      "s", "_", "p", "e", "r", "c", "e", "n", "t", "a", "g", "e", "=", "5", "0", " ", "w", "h",
      "e", "r", "e", " ", "t", "r", "i", "p", "_", "i", "d", "=", "2">>

\* "drop "
KwDrop == <<"d", "r", "o", "p", " ">>

\* "alter "
KwAlter == <<"a", "l", "t", "e", "r", " ">>

\* "pragma"
KwPragma == <<"p", "r", "a", "g", "m", "a">>

\* "attach"
KwAttach == <<"a", "t", "t", "a", "c", "h">>

\* "detach"
KwDetach == <<"d", "e", "t", "a", "c", "h">>

\* "select"
KwSelect == <<"s", "e", "l", "e", "c", "t">>

\* the query texts the reasoning capability may pass
QueryArgs == {QDropStops, QUpdateCapacity, QSelectVehicles, QDeleteDeployments, QAlterVehicles,
              QCreateNotes, QUnsetBooking, QDeleteTrips, QPragma, QDeleteVehicles, QTextBooking,
              QSelectThenDelete, QSelectMissing, QBookTrip}

\* a denylist that misses "drop "
banned_NoDrop == {KwAlter, KwPragma, KwAttach, KwDetach}

\* the denylist of dynamic_run_sql_query
banned == {KwDrop, KwAlter, KwPragma, KwAttach, KwDetach}

Whitespace == {" ", "\t", "\n"}

\* str.strip()
RECURSIVE Strip(_)
Strip(q) ==
    IF Len(q) = 0 THEN q
    ELSE IF q[1] \in Whitespace THEN Strip(Tail(q))
    ELSE IF q[Len(q)] \in Whitespace THEN Strip(SubSeq(q, 1, Len(q) - 1))
    ELSE q

UpperCase == <<"A", "B", "C", "D", "E", "F", "G", "H", "I", "J", "K", "L", "M",
               "N", "O", "P", "Q", "R", "S", "T", "U", "V", "W", "X", "Y", "Z">>

LowerCase == <<"a", "b", "c", "d", "e", "f", "g", "h", "i", "j", "k", "l", "m",
               "n", "o", "p", "q", "r", "s", "t", "u", "v", "w", "x", "y", "z">>

\* str.lower()
Lower(q) ==
    [i \in 1..Len(q) |->
        IF \E k \in 1..Len(UpperCase) : UpperCase[k] = q[i]
        THEN LowerCase[CHOOSE k \in 1..Len(UpperCase) : UpperCase[k] = q[i]]
        ELSE q[i]]

\* b in q
In(b, q) == \E i \in 1..(Len(q) - Len(b) + 1) : SubSeq(q, i, i + Len(b) - 1) = b

\* q.startswith(b)
StartsWith(q, b) == Len(q) >= Len(b) /\ SubSeq(q, 1, Len(b)) = b

\* any(b in q_lower for b in banned)
IsBanned(q_lower) == \E b \in banned : In(b, q_lower)

\* a faulty check that applies the retrieval test in write mode instead of read mode
ReadModeRejects_WriteOnly(q_lower, mode) == mode = "write" /\ ~StartsWith(q_lower, KwSelect)

\* a read mode that lets every statement through
ReadModeRejects_Never(q_lower, mode) == FALSE

\* mode == "read" and not q_lower.startswith("select")
ReadModeRejects(q_lower, mode) == mode = "read" /\ ~StartsWith(q_lower, KwSelect)

\* what SQLite's parser makes of a query text
Statement(query) ==
    CASE query = QDropStops         -> [verb |-> "drop", table |-> "stops"]
      [] query = QUpdateCapacity    -> [verb |-> "update", table |-> "vehicles", column |-> "capacity",
                                        value |-> 0, where |-> NULL]
      [] query = QSelectVehicles    -> [verb |-> "select", table |-> "vehicles",
                                        columns |-> <<"license_plate", "type">>]
      [] query = QDeleteDeployments -> [verb |-> "delete", table |-> "deployments"]
      [] query = QAlterVehicles     -> [verb |-> "alter", table |-> "vehicles", column |-> "note"]
      [] query = QCreateNotes       -> [verb |-> "create", table |-> "notes", columns |-> {"x"}]
      [] query = QTextBooking       -> [verb |-> "update", table |-> "daily_trips",
                                        column |-> "booking_status_percentage", value |-> Text("full"),
                                        where |-> Val(1)]
      [] query = QUnsetBooking      -> [verb |-> "update", table |-> "daily_trips",
                                        column |-> "booking_status_percentage", value |-> NULL, where |-> Val(2)]
      [] query = QDeleteTrips       -> [verb |-> "delete", table |-> "trips"]
      [] query = QPragma            -> [verb |-> "pragma", table |-> "", name |-> "foreign_keys"]
      [] query = QDeleteVehicles    -> [verb |-> "delete", table |-> "vehicles"]
      [] query = QBookTrip          -> [verb |-> "update", table |-> "daily_trips",
                                        column |-> "booking_status_percentage", value |-> Val(50), where |-> Val(2)]
      [] query = QSelectThenDelete  -> [verb |-> "script", table |-> ""]
      [] query = QSelectMissing     -> [verb |-> "select", table |-> "nope", columns |-> <<>>]

\* the primary key column of a table
RowId(table) ==
    CASE table = "stops" -> "stop_id"
      [] table = "paths" -> "path_id"
      [] table = "path_stops" -> "id"
      [] table = "routes" -> "route_id"
      [] table = "vehicles" -> "vehicle_id"
      [] table = "drivers" -> "driver_id"
      [] table = "daily_trips" -> "trip_id"
      [] table = "deployments" -> "deployment_id"

\* the rows of a table; a table created by a generic query holds none
Rows(S, table) ==
    CASE table = "stops" -> S.stops
      [] table = "paths" -> S.paths
      [] table = "path_stops" -> S.path_stops
      [] table = "routes" -> S.routes
      [] table = "vehicles" -> S.vehicles
      [] table = "drivers" -> S.drivers
      [] table = "daily_trips" -> S.daily_trips
      [] table = "deployments" -> S.deployments
      [] OTHER -> {}

WithRows(S, table, rows) ==
    CASE table = "stops" -> [S EXCEPT !.stops = rows]
      [] table = "paths" -> [S EXCEPT !.paths = rows]
      [] table = "path_stops" -> [S EXCEPT !.path_stops = rows]
      [] table = "routes" -> [S EXCEPT !.routes = rows]
      [] table = "vehicles" -> [S EXCEPT !.vehicles = rows]
      [] table = "drivers" -> [S EXCEPT !.drivers = rows]
      [] table = "daily_trips" -> [S EXCEPT !.daily_trips = rows]
      [] table = "deployments" -> [S EXCEPT !.deployments = rows]
      [] OTHER -> S

\* schema without one table
WithoutTable(schema, table) == [t \in DOMAIN schema \ {table} |-> schema[t]]

\* schema with one more table
WithTable(schema, table, columns) ==
    [t \in DOMAIN schema \cup {table} |-> IF t = table THEN columns ELSE schema[t]]

\* cur.execute(query) on a connection that leaves foreign keys off, then cur.rowcount and
\* cur.fetchall(): [db, error, rowcount, rows]
Execute(S, query) ==
    LET st == Statement(query)
        ok(S1, n, rows) == [db |-> S1, error |-> NULL, rowcount |-> n, rows |-> rows]
        err(e) == [db |-> S, error |-> Val(e), rowcount |-> -1, rows |-> <<>>]
    IN  CASE st.verb = "create" ->
                 IF st.table \in DOMAIN S.schema
                 THEN err(<<"table ", st.table, " already exists">>)
                 ELSE ok([S EXCEPT !.schema = WithTable(@, st.table, st.columns)], -1, <<>>)
          [] st.verb = "pragma" -> ok(S, -1, <<>>)
          [] st.verb = "script" -> err(<<"You can only execute one statement at a time.">>)
          [] st.table \notin DOMAIN S.schema -> err(<<"no such table: ", st.table>>)
          [] st.verb = "drop" ->
                 ok([WithRows(S, st.table, {}) EXCEPT !.schema = WithoutTable(@, st.table)], -1, <<>>)
          [] st.verb = "alter" ->
                 IF st.column \in S.schema[st.table]
                 THEN err(<<"duplicate column name: ", st.column>>)
                 ELSE ok([S EXCEPT !.schema[st.table] = @ \cup {st.column}], -1, <<>>)
          [] st.verb = "delete" ->
                 ok(WithRows(S, st.table, {}), Cardinality(Rows(S, st.table)), <<>>)
          [] st.verb = "update" ->
                 LET hit == {r \in Rows(S, st.table) : st.where = NULL \/ Val(r[RowId(st.table)]) = st.where}
                 IN  ok(WithRows(S, st.table,
                                 {IF r \in hit THEN [r EXCEPT ![st.column] = st.value] ELSE r
                                     : r \in Rows(S, st.table)}),
                        Cardinality(hit), <<>>)
          [] st.verb = "select" ->
                 LET sorted == OrderBy(Rows(S, st.table), RowId(st.table), RowId(st.table))
                 IN  ok(S, -1, [i \in 1..Len(sorted) |->
                                   [c \in 1..Len(st.columns) |-> sorted[i][st.columns[c]]]])

\* "-" * n
RECURSIVE Dashes(_)
Dashes(n) == IF n = 0 THEN "" ELSE "-" \o Dashes(n - 1)

\* len(s) of the text whose pieces are given
RECURSIVE TextLen(_)
TextLen(pieces) == IF Len(pieces) = 0 THEN 0 ELSE Len(pieces[1]) + TextLen(Tail(pieces))

\* str(cur.rowcount)
RowCountStr(n) == IF n < 0 THEN "-" \o IntStr(-n) ELSE IntStr(n)

\* the table text of a SELECT: header, divider, one line per row
FormatRows(headers, rows) ==
    LET head  == Join(" | ", headers)
        lines == <<head, <<Dashes(TextLen(head))>> >> \o [i \in 1..Len(rows) |-> Join(" | ", rows[i])]
    IN  Flatten(Join(<<"\n">>, lines))

\* query.strip().lower(), tabulated once for the query texts of the model
QLower == [q \in QueryArgs |-> Lower(Strip(q))]

dynamic_run_sql_query(S, query, mode) ==
    LET q_lower == QLower[query]
    IN  IF IsBanned(q_lower) THEN Ret(S, <<"Unsafe SQL command blocked.">>)
        ELSE IF ReadModeRejects(q_lower, mode) THEN Ret(S, <<"Only SELECT queries allowed in read mode.">>)
        ELSE
        LET x == Execute(S, query)
        IN  IF x.error # NULL THEN Ret(S, <<"SQL error: ">> \o x.error[1])
            ELSE IF StartsWith(q_lower, KwSelect)
            THEN IF Len(x.rows) = 0 THEN Ret(S, <<"Query executed. No rows returned.">>)
                 ELSE Ret(S, FormatRows(Statement(query).columns, x.rows))
            ELSE Ret(x.db, <<"Query executed successfully (", RowCountStr(x.rowcount), " rows affected).">>)

-----------------------------------------------------------------------------
(* Arguments the reasoning capability may pass *)

TripArgs == {"Bulk - 00:01", "Bulk - 00:02", "Ghost"}

PlateArgs == {"KA-01-1111", "KA-05-9999", "XX-00"}

DriverArgs == {"Amit", "Sneha", "Nobody"}

StopArgs == {"Temple", "Hub"}

CoordArgs == {NULL, Val("12.900")}

NewPathArgs == {"Path-1", "Path-3"}

PathArgs == {"Path-1", "Path-3", "Nowhere"}

StopListArgs == {<<>>, <<"Hub", "Temple">>, <<"Yard", "Hub", "Yard">>}

ShiftArgs == {"08:30", "09:00"}

DirectionArgs == {"IN", "OUT"}

ModeArgs == {"read", "write"}

\* deployment ids the model lets AUTOINCREMENT hand out
MaxDeploymentId == 4

-----------------------------------------------------------------------------
(* The tool catalog: one action per tool of TOOLS *)

\* the browser sessions that share movi.db; each runs store functions on connections of its own
Sessions == {"s1", "s2"}

\* a session that is running no store function
NoCall ==
    [op |-> "none", pc |-> "idle", args |-> <<>>, trip |-> NULL, vehicle |-> NULL, driver |-> NULL,
     existing |-> NULL, result |-> <<>>, raised |-> FALSE]

Init ==
    /\ db = SeedDb
    /\ last = [op |-> "none", args |-> <<>>, result |-> <<>>, raised |-> FALSE]
    /\ chat_history = <<>>
    /\ pc = "idle"
    /\ messages = <<>>
    /\ current_page = "unknown"
    /\ reasons = 0
    /\ dispatches = 0
    /\ request = NULL
    /\ running = [s \in Sessions |-> NoCall]

\* A tool call makes the store what the function leaves and records the call in last.
tool_count_unassigned_vehicles ==
    \E r \in {count_unassigned_vehicles(db)} :
        /\ db' = r.db
        /\ last' = [op |-> "count_unassigned_vehicles", args |-> <<>>, result |-> r.result, raised |-> r.raised]
        /\ UNCHANGED session

tool_get_trip_status(Trips) ==
    \E t \in Trips : \E r \in {get_trip_status(db, t)} :
        /\ db' = r.db
        /\ last' = [op |-> "get_trip_status", args |-> <<t>>, result |-> r.result, raised |-> r.raised]
        /\ UNCHANGED session

tool_list_stops_for_path(Paths) ==
    \E p \in Paths : \E r \in {list_stops_for_path(db, p)} :
        /\ db' = r.db
        /\ last' = [op |-> "list_stops_for_path", args |-> <<p>>, result |-> r.result, raised |-> r.raised]
        /\ UNCHANGED session

tool_list_routes_for_path(Paths) ==
    \E p \in Paths : \E r \in {list_routes_for_path(db, p)} :
        /\ db' = r.db
        /\ last' = [op |-> "list_routes_for_path", args |-> <<p>>, result |-> r.result, raised |-> r.raised]
        /\ UNCHANGED session

\* the guard keeps the AUTOINCREMENT counter of deployments within the model's bound
tool_assign_vehicle_and_driver(Trips, Plates, Drivers) ==
    \E t \in Trips, p \in Plates, d \in Drivers : \E r \in {assign_vehicle_and_driver(db, t, p, d)} :
        /\ r.db.sequence["deployments"] <= MaxDeploymentId
        /\ db' = r.db
        /\ last' = [op |-> "assign_vehicle_and_driver", args |-> <<t, p, d>>, result |-> r.result, raised |-> r.raised]
        /\ UNCHANGED session

tool_remove_vehicle_from_trip(Trips) ==
    \E t \in Trips, force \in BOOLEAN : \E r \in {remove_vehicle_from_trip(db, t, force)} :
        /\ db' = r.db
        /\ last' = [op |-> "remove_vehicle_from_trip", args |-> <<t, force>>, result |-> r.result, raised |-> r.raised]
        /\ UNCHANGED session

tool_create_stop(Stops, Coords) ==
    \E n \in Stops, lat \in Coords, long \in Coords : \E r \in {create_stop(db, n, lat, long)} :
        /\ db' = r.db
        /\ last' = [op |-> "create_stop", args |-> <<n, lat, long>>, result |-> r.result, raised |-> r.raised]
        /\ UNCHANGED session

tool_create_path(Paths, StopLists) ==
    \E p \in Paths, l \in StopLists : \E r \in {create_path(db, p, l)} :
        /\ db' = r.db
        /\ last' = [op |-> "create_path", args |-> <<p, l>>, result |-> r.result, raised |-> r.raised]
        /\ UNCHANGED session

tool_create_route(Paths, Shifts, Directions) ==
    \E p \in Paths, t \in Shifts, d \in Directions : \E r \in {create_route(db, p, t, d)} :
        /\ db' = r.db
        /\ last' = [op |-> "create_route", args |-> <<p, t, d>>, result |-> r.result, raised |-> r.raised]
        /\ UNCHANGED session

tool_list_active_routes ==
    \E r \in {list_active_routes(db)} :
        /\ db' = r.db
        /\ last' = [op |-> "list_active_routes", args |-> <<>>, result |-> r.result, raised |-> r.raised]
        /\ UNCHANGED session

tool_list_unassigned_drivers ==
    \E r \in {list_unassigned_drivers(db)} :
        /\ db' = r.db
        /\ last' = [op |-> "list_unassigned_drivers", args |-> <<>>, result |-> r.result, raised |-> r.raised]
        /\ UNCHANGED session

tool_run_dynamic_quries(Queries, Modes) ==
    \E q \in Queries, m \in Modes : \E r \in {dynamic_run_sql_query(db, q, m)} :
        /\ db' = r.db
        /\ last' = [op |-> "dynamic_run_sql_query", args |-> <<q, m>>, result |-> r.result, raised |-> r.raised]
        /\ UNCHANGED session

-----------------------------------------------------------------------------
(* Two sessions on one database: a store function runs statement by statement on its own
   connection; a SELECT reads what is committed, and a write with its commit is one step *)

\* the function of session s returns the text, or the exception leaves it
Finish(s, result, raised) ==
    /\ running' = [running EXCEPT ![s].pc = "done", ![s].result = result, ![s].raised = raised]
    /\ last' = [op |-> running[s].op, args |-> running[s].args, result |-> result, raised |-> raised]

\* session s calls assign_vehicle_and_driver
assign_call(s, Trips, Plates, Drivers) ==
    /\ running[s].pc = "idle"
    /\ \E t \in Trips, p \in Plates, d \in Drivers :
          running' = [running EXCEPT ![s] = [NoCall EXCEPT !.op = "assign_vehicle_and_driver",
                                                          !.pc = "select_trip", !.args = <<t, p, d>>]]
    /\ UNCHANGED <<store, conversation>>

\* SELECT trip_id FROM daily_trips WHERE display_name = ?
assign_select_trip(s) ==
    /\ running[s].op = "assign_vehicle_and_driver" /\ running[s].pc = "select_trip"
    /\ LET trips == {t \in db.daily_trips : t.display_name = running[s].args[1]}
       IN  IF trips = {}
           THEN Finish(s, <<"Trip '", running[s].args[1], "' not found.">>, FALSE)
           ELSE /\ running' = [running EXCEPT ![s].pc = "select_vehicle",
                                              ![s].trip = Val(FetchOne(trips, "trip_id").trip_id)]
                /\ UNCHANGED last
    /\ UNCHANGED <<db, conversation>>

\* SELECT vehicle_id FROM vehicles WHERE license_plate = ?
assign_select_vehicle(s) ==
    /\ running[s].op = "assign_vehicle_and_driver" /\ running[s].pc = "select_vehicle"
    /\ LET vehicles == {v \in db.vehicles : v.license_plate = running[s].args[2]}
       IN  IF vehicles = {}
           THEN Finish(s, <<"Vehicle '", running[s].args[2], "' not found.">>, FALSE)
           ELSE /\ running' = [running EXCEPT ![s].pc = "select_driver",
                                              ![s].vehicle = Val(FetchOne(vehicles, "vehicle_id").vehicle_id)]
                /\ UNCHANGED last
    /\ UNCHANGED <<db, conversation>>

\* SELECT driver_id FROM drivers WHERE name = ?
assign_select_driver(s) ==
    /\ running[s].op = "assign_vehicle_and_driver" /\ running[s].pc = "select_driver"
    /\ LET drivers == {d \in db.drivers : d.name = running[s].args[3]}
       IN  IF drivers = {}
           THEN Finish(s, <<"Driver '", running[s].args[3], "' not found.">>, FALSE)
           ELSE /\ running' = [running EXCEPT ![s].pc = "select_existing",
                                              ![s].driver = Val(FetchOne(drivers, "driver_id").driver_id)]
                /\ UNCHANGED last
    /\ UNCHANGED <<db, conversation>>

\* SELECT deployment_id FROM deployments WHERE trip_id = ?
assign_select_existing(s) ==
    /\ running[s].op = "assign_vehicle_and_driver" /\ running[s].pc = "select_existing"
    /\ LET matching == DeploymentsOfTrip(db, running[s].trip[1])
       IN  running' = [running EXCEPT
                          ![s].pc = "write",
                          ![s].existing = IF matching = {} THEN NULL
                                          ELSE Val(FetchOne(matching, "deployment_id").deployment_id)]
    /\ UNCHANGED <<store, conversation>>

\* the UPDATE or the INSERT the function chose from what it read, and conn.commit()
assign_write(s) ==
    /\ running[s].op = "assign_vehicle_and_driver" /\ running[s].pc = "write"
    /\ LET call == running[s]
       IN  IF call.existing # NULL
           THEN /\ db' = [db EXCEPT !.deployments =
                             {IF dep.deployment_id = call.existing[1]
                              THEN UpdatedDeployment(dep, call.vehicle[1], call.driver[1]) ELSE dep
                                 : dep \in db.deployments}]
                /\ Finish(s, <<"Updated deployment: trip '", call.args[1], "' now uses vehicle ",
                               call.args[2], " with driver ", call.args[3], ".">>, FALSE)
           ELSE IF DeploymentsOfTrip(db, call.trip[1]) # {}
           THEN \* deployments.trip_id is UNIQUE; the function catches no IntegrityError
                /\ db' = db
                /\ Finish(s, <<"IntegrityError: ", "UNIQUE constraint failed: deployments.trip_id">>, TRUE)
           ELSE LET row == [deployment_id |-> NextId(db, "deployments"), trip_id |-> call.trip[1],
                            vehicle_id |-> call.vehicle, driver_id |-> call.driver]
                IN  /\ db' = [db EXCEPT !.deployments = @ \cup {row},
                                        !.sequence["deployments"] = row.deployment_id]
                    /\ Finish(s, <<"Assigned vehicle ", call.args[2], " and driver ", call.args[3],
                                   " to trip '", call.args[1], "'.">>, FALSE)
    /\ UNCHANGED conversation

\* session s calls remove_vehicle_from_trip
remove_call(s, Trips, Forces) ==
    /\ running[s].pc = "idle"
    /\ \E t \in Trips, force \in Forces :
          running' = [running EXCEPT ![s] = [NoCall EXCEPT !.op = "remove_vehicle_from_trip",
                                                          !.pc = "select_trip", !.args = <<t, force>>]]
    /\ UNCHANGED <<store, conversation>>

\* SELECT t.trip_id, t.display_name, t.booking_status_percentage, r.route_display_name ...
remove_select_trip(s) ==
    /\ running[s].op = "remove_vehicle_from_trip" /\ running[s].pc = "select_trip"
    /\ LET trips == TripsOnRoutes(db, running[s].args[1])
       IN  IF trips = {}
           THEN Finish(s, <<"Trip '", running[s].args[1], "' not found.">>, FALSE)
           ELSE LET trip == FetchOne(trips, "trip_id")
                IN  /\ running' = [running EXCEPT
                                      ![s].pc = "select_deployment",
                                      ![s].trip = Val([trip_id |-> trip.trip_id,
                                                       display_name |-> trip.display_name,
                                                       booking_status_percentage |-> trip.booking_status_percentage,
                                                       route_display_name |-> RouteNameOf(db, trip)])]
                    /\ UNCHANGED last
    /\ UNCHANGED <<db, conversation>>

\* SELECT dep.deployment_id, v.license_plate, d.name AS driver_name ... WHERE dep.trip_id = ?
remove_select_deployment(s) ==
    /\ running[s].op = "remove_vehicle_from_trip" /\ running[s].pc = "select_deployment"
    /\ LET deps == DeploymentsOfTrip(db, running[s].trip[1].trip_id)
       IN  IF deps = {}
           THEN Finish(s, <<"No vehicle is currently assigned to trip '", running[s].args[1], "'.">>, FALSE)
           ELSE LET dep == FetchOne(deps, "deployment_id")
                IN  /\ running' = [running EXCEPT
                                      ![s].pc = "delete",
                                      ![s].existing = Val([deployment_id |-> dep.deployment_id,
                                                           license_plate |-> PlateOf(db, dep),
                                                           driver_name |-> DriverOf(db, dep)])]
                    /\ UNCHANGED last
    /\ UNCHANGED <<db, conversation>>

\* the gate, decided on the trip row read before, then DELETE FROM deployments WHERE
\* deployment_id = ? and conn.commit()
remove_delete(s) ==
    /\ running[s].op = "remove_vehicle_from_trip" /\ running[s].pc = "delete"
    /\ LET call    == running[s]
           trip    == call.trip[1]
           dep     == call.existing[1]
           booking == BookingOf(trip)
       IN  IF IsText(booking)
           THEN /\ db' = db
                /\ Finish(s, <<"TypeError: '>' not supported between instances of 'str' and 'int'">>, TRUE)
           ELSE IF GateWarns(booking, call.args[2])
           THEN /\ db' = db
                /\ Finish(s, <<"WARNING: ", "Trip '", trip.display_name, "' on route '",
                               trip.route_display_name, "' is already ~", RealStr(booking), "% booked. ",
                               "Removing the vehicle will cancel these bookings and the trip-sheet will fail to generate. ",
                               "Ask the user for a yes/no confirmation. If they confirm, call this again with force=true.">>,
                          FALSE)
           ELSE /\ db' = [db EXCEPT !.deployments = {d \in @ : d.deployment_id # dep.deployment_id}]
                /\ Finish(s, <<"Removed vehicle '", Str(dep.license_plate), "' and driver '",
                               Str(dep.driver_name), "' from trip '", call.args[1], "'.">>, FALSE)
    /\ UNCHANGED conversation

\* every tool of the catalog
Next ==
    \/ tool_count_unassigned_vehicles
    \/ tool_get_trip_status({"Bulk - 00:01"})
    \/ tool_list_stops_for_path({"Path-3"})
    \/ tool_list_routes_for_path({"Path-3"})
    \/ tool_assign_vehicle_and_driver({"Bulk - 00:02"}, {"KA-05-9999"}, {"Sneha", "Nobody"})
    \/ tool_remove_vehicle_from_trip({"Bulk - 00:01", "Bulk - 00:02"})
    \/ tool_create_stop({"Hub"}, {NULL})
    \/ tool_create_path({"Path-3"}, {<<"Hub", "Temple">>})
    \/ tool_create_route({"Path-3"}, {"08:30"}, {"IN"})
    \/ tool_list_active_routes
    \/ tool_list_unassigned_drivers
    \/ tool_run_dynamic_quries({QDropStops, QSelectVehicles, QDeleteDeployments, QDeleteVehicles, QUnsetBooking},
                               ModeArgs)

Spec == Init /\ [][Next]_vars

\* every tool of the catalog, with a write query that stores a text as a booking percentage
NextText ==
    \/ Next
    \/ tool_run_dynamic_quries({QTextBooking}, {"write"})

SpecText == Init /\ [][NextText]_vars

\* the deployment tools and the generic query
NextDeploy ==
    \/ tool_assign_vehicle_and_driver(TripArgs, PlateArgs, DriverArgs)
    \/ tool_remove_vehicle_from_trip(TripArgs)
    \/ tool_run_dynamic_quries({QUnsetBooking}, ModeArgs)

SpecDeploy == Init /\ [][NextDeploy]_vars

\* the creation tools and the path listings
NextCreate ==
    \/ tool_create_stop(StopArgs, CoordArgs)
    \/ tool_create_path(NewPathArgs, StopListArgs)
    \/ tool_create_route(PathArgs, ShiftArgs, DirectionArgs)
    \/ tool_list_stops_for_path(PathArgs)
    \/ tool_list_routes_for_path(PathArgs)

SpecCreate == Init /\ [][NextCreate]_vars

\* directions the reasoning capability may pass: the parameter is any text
AnyDirectionArgs == DirectionArgs \cup {"SIDEWAYS"}

\* the path and route creation, with any text as the direction
NextDomain ==
    \/ tool_create_path({"Path-3"}, StopListArgs)
    \/ tool_create_route(PathArgs, ShiftArgs, AnyDirectionArgs)

SpecDomain == Init /\ [][NextDomain]_vars

\* two sessions, each assigning a vehicle and a driver once
NextRace ==
    \E s \in Sessions :
        \/ assign_call(s, {"Bulk - 00:01", "Bulk - 00:02"}, {"KA-01-1111", "KA-05-9999"}, {"Amit", "Sneha"})
        \/ assign_select_trip(s)
        \/ assign_select_vehicle(s)
        \/ assign_select_driver(s)
        \/ assign_select_existing(s)
        \/ assign_write(s)

SpecRace == Init /\ [][NextRace]_vars

\* two sessions, each removing a vehicle once, next to assignments and booking updates
NextGate ==
    \/ \E s \in Sessions :
          \/ remove_call(s, {"Bulk - 00:02"}, BOOLEAN)
          \/ remove_select_trip(s)
          \/ remove_select_deployment(s)
          \/ remove_delete(s)
    \/ tool_assign_vehicle_and_driver({"Bulk - 00:02"}, {"KA-05-9999"}, {"Sneha"})
    \/ tool_run_dynamic_quries({QBookTrip, QUnsetBooking}, {"write"})

SpecGate == Init /\ [][NextGate]_vars

\* the eleven structured tools, without the generic query
NextStructured ==
    \/ tool_count_unassigned_vehicles
    \/ tool_get_trip_status({"Bulk - 00:01"})
    \/ tool_list_stops_for_path({"Path-3"})
    \/ tool_list_routes_for_path({"Path-3"})
    \/ tool_assign_vehicle_and_driver({"Bulk - 00:01", "Bulk - 00:02"}, {"KA-01-1111", "XX-00"},
                                      {"Amit", "Sneha", "Nobody"})
    \/ tool_remove_vehicle_from_trip(TripArgs)
    \/ tool_create_stop({"Hub"}, {NULL})
    \/ tool_create_path({"Path-3"}, {<<"Hub", "Temple">>})
    \/ tool_create_route({"Path-3"}, {"08:30"}, {"IN"})
    \/ tool_list_active_routes
    \/ tool_list_unassigned_drivers

SpecStructured == Init /\ [][NextStructured]_vars

\* path names and shift times of which two pairs give one display name
CollidingPathArgs == {"Hub", "Hub - X"}

CollidingShiftArgs == {"09:00", "X - 09:00"}

\* paths and routes created over those names
NextRoute ==
    \/ tool_create_path(CollidingPathArgs, {<<"Temple">>, <<"Peenya", "Majestic">>})
    \/ tool_create_route(CollidingPathArgs, CollidingShiftArgs, DirectionArgs)

SpecRoute == Init /\ [][NextRoute]_vars

\* the generic query alone
NextQuery ==
    \/ tool_run_dynamic_quries(QueryArgs, ModeArgs)

SpecQuery == Init /\ [][NextQuery]_vars

-----------------------------------------------------------------------------
(* The session handler of src/app.py and the decision graph of src/movi_agent.py *)

\* a chat message of the graph
Message(type, content, image, tool_calls, tool_call_id) ==
    [type |-> type, content |-> content, image |-> image, tool_calls |-> tool_calls,
     tool_call_id |-> tool_call_id]

\* a faulty reformat that attaches the image to every user message
history_to_graph_messages_EveryUser(history, last_image_b64) ==
    [i \in 1..Len(history) |->
        IF history[i].role = "user"
        THEN Message("human", history[i].content, last_image_b64, <<>>, NULL)
        ELSE Message("ai", history[i].content, NULL, <<>>, NULL)]

\* the truth value Python gives an optional string: None and "" are false
Truthy(text) == text # NULL /\ text # Val("")

\* _history_to_graph_messages: the image goes to a last user message only
history_to_graph_messages(history, last_image_b64) ==
    [i \in 1..Len(history) |->
        IF history[i].role = "user"
        THEN IF i = Len(history) /\ Truthy(last_image_b64)
             THEN Message("human", history[i].content, last_image_b64, <<>>, NULL)
             ELSE Message("human", history[i].content, NULL, <<>>, NULL)
        ELSE Message("ai", history[i].content, NULL, <<>>, NULL)]

\* the tool of TOOLS a tool call names, run on its arguments
Dispatch(S, call) ==
    CASE call.name = "tool_count_unassigned_vehicles" -> count_unassigned_vehicles(S)
      [] call.name = "tool_get_trip_status"           -> get_trip_status(S, call.args[1])
      [] call.name = "tool_list_stops_for_path"       -> list_stops_for_path(S, call.args[1])
      [] call.name = "tool_list_routes_for_path"      -> list_routes_for_path(S, call.args[1])
      [] call.name = "tool_assign_vehicle_and_driver" ->
             assign_vehicle_and_driver(S, call.args[1], call.args[2], call.args[3])
      [] call.name = "tool_remove_vehicle_from_trip"  -> remove_vehicle_from_trip(S, call.args[1], call.args[2])
      [] call.name = "tool_create_stop"               -> create_stop(S, call.args[1], call.args[2], call.args[3])
      [] call.name = "tool_create_path"               -> create_path(S, call.args[1], call.args[2])
      [] call.name = "tool_create_route"              -> create_route(S, call.args[1], call.args[2], call.args[3])
      [] call.name = "tool_list_active_routes"        -> list_active_routes(S)
      [] call.name = "tool_list_unassigned_drivers"   -> list_unassigned_drivers(S)
      [] call.name = "tool_run_dynamic_quries"        -> dynamic_run_sql_query(S, call.args[1], call.args[2])

\* a faulty tools node that runs the first tool call of the message only
RunTools_FirstOnly(S, calls, k, out) ==
    LET r == Dispatch(S, calls[1])
    IN  [db |-> r.db, out |-> <<Message("tool", r.result, NULL, <<>>, Val(calls[1].id))>>]

\* ToolNode(TOOLS): the tool calls of one assistant message run in the order requested, from
\* position k on; each yields one tool message tagged with the id of its call
RECURSIVE RunTools(_, _, _, _)
RunTools(S, calls, k, out) ==
    IF k > Len(calls) THEN [db |-> S, out |-> out]
    ELSE LET r == Dispatch(S, calls[k])
         IN  RunTools(r.db, calls, k + 1,
                      Append(out, Message("tool", r.result, NULL, <<>>, Val(calls[k].id))))

\* a faulty edge that goes to the tools only for two invocations or more
tools_condition_BatchOnly(msgs) ==
    IF Len(msgs[Len(msgs)].tool_calls) > 1 THEN "tools" ELSE "end"

\* tools_condition: the node after "agent"
tools_condition(msgs) ==
    IF Len(msgs[Len(msgs)].tool_calls) > 0 THEN "tools" ELSE "end"

\* what the user may type
UserTexts == {<<"remove the vehicle from Bulk - 00:01">>, <<"yes">>}

ImageArgs == {NULL, Val(""), Val("iVBORw0KGgo=")}

PageArgs == {"busDashboard", "manageRoute"}

\* final answers the reasoning capability may give
FinalTexts == {<<"Done.">>, <<"Shall I remove it anyway?">>}

\* invocations the reasoning capability may request: a tool name and its arguments
CallArgs ==
    { [name |-> "tool_remove_vehicle_from_trip", args |-> <<"Bulk - 00:01", FALSE>>],
      [name |-> "tool_remove_vehicle_from_trip", args |-> <<"Bulk - 00:01", TRUE>>] }

\* conversation turns the model follows
MaxTurns == 2

\* Reason steps of one turn the model follows
MaxRounds == 2

\* invocations in one answer of the reasoning capability
MaxBatch == 2

\* the batches of invocations the reasoning capability may request; the k-th call made
\* in a turn gets the id k
Batches(first_id) ==
    UNION { { [k \in 1..n |-> [name |-> c[k].name, args |-> c[k].args, id |-> first_id + k - 1]]
                : c \in [1..n -> CallArgs] } : n \in 1..MaxBatch }

\* what LLM.bind_tools(TOOLS).invoke may return: a final text, or a batch of tool calls
Answers(first_id) ==
    {Message("ai", t, NULL, <<>>, NULL) : t \in FinalTexts}
        \cup {Message("ai", <<"">>, NULL, b, NULL) : b \in Batches(first_id)}

\* the catalog TOOLS, in the order of the list
TOOLS ==
    <<"tool_count_unassigned_vehicles", "tool_get_trip_status", "tool_list_stops_for_path",
      "tool_list_routes_for_path", "tool_assign_vehicle_and_driver", "tool_remove_vehicle_from_trip",
      "tool_create_stop", "tool_create_path", "tool_create_route", "tool_list_active_routes",
      "tool_list_unassigned_drivers", "tool_run_dynamic_quries">>

\* _get_db_schema: the tables of the database and their columns
get_db_schema(S) == S.schema

\* _build_system_prompt: the instruction text, with the schema and the page put in
build_system_prompt(S, page) ==
    <<"You are Movi, the transport manager assistant for MoveInSync Shuttle.",
      "You manage a SQLite database with this schema:", get_db_schema(S),
      "Current UI Page: ", page,
      "GENERAL BEHAVIOUR", "PAGE CONTEXT", "TRIBAL KNOWLEDGE", "Be concise, factual, and data-grounded.">>

\* a faulty binding that offers the tools of the page in view only
llm_request_PageCatalog(S, page, msgs) ==
    [tools |-> IF page = "manageRoute" THEN SubSeq(TOOLS, 3, 4) \o SubSeq(TOOLS, 7, 10)
               ELSE SubSeq(TOOLS, 1, 2) \o SubSeq(TOOLS, 5, 6) \o SubSeq(TOOLS, 11, 11),
     messages |-> <<Message("system", build_system_prompt(S, page), NULL, <<>>, NULL)>> \o msgs]

\* LLM.bind_tools(TOOLS).invoke([sys_msg] + state["messages"]): what the reasoning capability
\* is given
llm_request(S, page, msgs) ==
    [tools |-> TOOLS,
     messages |-> <<Message("system", build_system_prompt(S, page), NULL, <<>>, NULL)>> \o msgs]

\* main, on a user input: the user turn is stored and graph.invoke starts
UserInput(Texts, Images, Pages) ==
    /\ pc \in {"idle", "raised"}
    /\ Len(chat_history) < 2 * MaxTurns
    /\ \E user_input \in Texts, image_b64 \in Images, page \in Pages :
        /\ chat_history' = Append(chat_history, [role |-> "user", content |-> user_input])
        /\ messages' = history_to_graph_messages(chat_history', image_b64)
        /\ current_page' = page
    /\ pc' = "agent"
    /\ reasons' = 0
    /\ dispatches' = 0
    /\ UNCHANGED <<store, request, running>>

\* _agent_node, then the conditional edge out of "agent"
agent_node ==
    /\ pc = "agent"
    /\ reasons < MaxRounds
    /\ \E result \in Answers(dispatches + 1) :
        /\ messages' = Append(messages, result)
        /\ pc' = tools_condition(messages')
    /\ reasons' = reasons + 1
    /\ request' = llm_request(db, current_page, messages)
    /\ UNCHANGED <<store, chat_history, current_page, dispatches, running>>

\* _agent_node when llm_with_tools.invoke raises: nothing between the call and main catches
\* the exception, so it leaves graph.invoke and main; the script run ends there, the session
\* state stays as it is, and the next input starts main again
agent_node_error ==
    /\ pc = "agent"
    /\ reasons < MaxRounds
    /\ pc' = "raised"
    /\ request' = llm_request(db, current_page, messages)
    /\ UNCHANGED <<store, chat_history, messages, current_page, reasons, dispatches, running>>

\* the node "tools", then the edge back to "agent"
tools_node ==
    /\ pc = "tools"
    /\ LET calls == messages[Len(messages)].tool_calls
       IN  \E r \in {RunTools(db, calls, 1, <<>>)} :
               /\ db' = r.db
               /\ messages' = messages \o r.out
               /\ last' = [op |-> calls[Len(calls)].name, args |-> calls[Len(calls)].args,
                           result |-> r.out[Len(r.out)].content, raised |-> FALSE]
               /\ dispatches' = dispatches + Len(calls)
    /\ pc' = "agent"
    /\ UNCHANGED <<chat_history, current_page, reasons, request, running>>

\* a faulty reply that reads the first message of the final state
reply_text_First(final_messages) == final_messages[1].content

\* reply_text: the content of final_messages[-1]
reply_text(final_messages) == final_messages[Len(final_messages)].content

\* a faulty handler that stores every message the graph added in the turn
Reply_StoresTrace ==
    /\ pc = "end"
    /\ chat_history' = chat_history \o
           [i \in 1..(Len(messages) - Len(chat_history)) |->
               [role |-> "assistant", content |-> messages[Len(chat_history) + i].content]]
    /\ pc' = "idle"
    /\ UNCHANGED <<store, messages, current_page, reasons, dispatches, request, running>>

\* main, once graph.invoke has returned: the last message is stored as the assistant turn
Reply ==
    /\ pc = "end"
    /\ chat_history' = Append(chat_history, [role |-> "assistant", content |-> reply_text(messages)])
    /\ pc' = "idle"
    /\ UNCHANGED <<store, messages, current_page, reasons, dispatches, request, running>>

NextLoop ==
    \/ UserInput(UserTexts, {NULL}, {"busDashboard"})
    \/ agent_node
    \/ tools_node
    \/ Reply

SpecLoop == Init /\ [][NextLoop]_vars

\* the session with the admin page switched between inputs
NextPage ==
    \/ UserInput({<<"yes">>}, {NULL}, PageArgs)
    \/ agent_node
    \/ tools_node
    \/ Reply

SpecPage == Init /\ [][NextPage]_vars

\* the session with screenshots uploaded
NextImage ==
    \/ UserInput({<<"yes">>}, ImageArgs, {"busDashboard"})
    \/ agent_node
    \/ tools_node
    \/ Reply

SpecImage == Init /\ [][NextImage]_vars

\* the session with a reasoning capability that may fail
NextFault ==
    \/ UserInput(UserTexts, {NULL}, {"busDashboard"})
    \/ agent_node
    \/ agent_node_error
    \/ tools_node
    \/ Reply

SpecFault == Init /\ [][NextFault]_vars

-----------------------------------------------------------------------------
(* Properties of the deployment tools, checked under SpecDeploy *)

\* the trip's stored booking percentage is above zero
IsBooked(trip) ==
    trip.booking_status_percentage # NULL /\ trip.booking_status_percentage[1] > 0

\* the confirmation remove_vehicle_from_trip gives for a deployment of the trip
RemovalText(S, trip, dep) ==
    <<"Removed vehicle '", (CHOOSE v \in S.vehicles : Val(v.vehicle_id) = dep.vehicle_id).license_plate,
      "' and driver '", (CHOOSE d \in S.drivers : Val(d.driver_id) = dep.driver_id).name,
      "' from trip '", trip.display_name, "'.">>

\* C1: for every trip that has a deployment and a booking percentage above zero,
\* remove_vehicle_from_trip with force=false returns a text holding "WARNING" and leaves the
\* whole store unchanged, and with force=true it deletes that deployment, nothing else, and
\* returns the confirmation that names the removed vehicle and driver.
C1_SafetyGate ==
    \A trip \in db.daily_trips : \A dep \in db.deployments :
        (dep.trip_id = trip.trip_id /\ IsBooked(trip)) =>
            LET soft == remove_vehicle_from_trip(db, trip.display_name, FALSE)
                hard == remove_vehicle_from_trip(db, trip.display_name, TRUE)
            IN  /\ Contains(soft.result, "WARNING: ")
                /\ soft.db = db
                /\ hard.db = [db EXCEPT !.deployments = @ \ {dep}]
                /\ hard.result = RemovalText(db, trip, dep)
                /\ ~soft.raised /\ ~hard.raised

\* a forced removal of the deployment of the booked trip "Bulk - 00:01" has just run
C1_Witness ==
    /\ last.op = "remove_vehicle_from_trip"
    /\ last.args = <<"Bulk - 00:01", TRUE>>
    /\ last.result[1] = "Removed vehicle '"
    /\ \E trip \in db.daily_trips :
          /\ trip.display_name = "Bulk - 00:01"
          /\ IsBooked(trip)
          /\ ~\E dep \in db.deployments : dep.trip_id = trip.trip_id

\* C3: for every trip that has a deployment and whose booking percentage is 0 or unset,
\* remove_vehicle_from_trip with force=false deletes the deployment and returns the removal
\* confirmation, not the warning.
C3_ZeroBookingFastPath ==
    \A trip \in db.daily_trips : \A dep \in db.deployments :
        (dep.trip_id = trip.trip_id /\ ~IsBooked(trip)) =>
            LET r == remove_vehicle_from_trip(db, trip.display_name, FALSE)
            IN  /\ r.db = [db EXCEPT !.deployments = @ \ {dep}]
                /\ r.result = RemovalText(db, trip, dep)
                /\ ~Contains(r.result, "WARNING: ")
                /\ ~r.raised

\* an unforced removal has just deleted the deployment of a trip whose booking is unset
C3_Witness ==
    /\ last.op = "remove_vehicle_from_trip"
    /\ last.args = <<"Bulk - 00:02", FALSE>>
    /\ last.result[1] = "Removed vehicle '"
    /\ \E trip \in db.daily_trips :
          /\ trip.display_name = "Bulk - 00:02"
          /\ trip.booking_status_percentage = NULL
          /\ ~\E dep \in db.deployments : dep.trip_id = trip.trip_id

\* the call returned one of the two success texts of assign_vehicle_and_driver
AssignSucceeded(r) ==
    ~r.raised /\ r.result[1] \in {"Assigned vehicle ", "Updated deployment: trip '"}

\* the trip has exactly one deployment, and it holds the vehicle and the driver named
HoldsExactly(S, trip_display_name, vehicle_plate, driver_name) ==
    \E trip \in S.daily_trips : \E v \in S.vehicles : \E d \in S.drivers :
        /\ trip.display_name = trip_display_name
        /\ v.license_plate = vehicle_plate
        /\ d.name = driver_name
        /\ \E dep \in S.deployments :
              /\ {x \in S.deployments : x.trip_id = trip.trip_id} = {dep}
              /\ dep.vehicle_id = Val(v.vehicle_id)
              /\ dep.driver_id = Val(d.driver_id)

\* C4: every trip has at most one deployment row; after two successive successful
\* assign_vehicle_and_driver calls for one trip exactly one deployment row exists for it, the
\* row of the first call updated in place, and it holds the vehicle and driver of the second call.
C4_DeploymentUniqueness ==
    /\ \A a, b \in db.deployments : a.trip_id = b.trip_id => a = b
    /\ (last.op = "assign_vehicle_and_driver" /\ AssignSucceeded(last))
          => HoldsExactly(db, last.args[1], last.args[2], last.args[3])
    /\ \A t \in TripArgs, p1 \in PlateArgs, p2 \in PlateArgs, d1 \in DriverArgs, d2 \in DriverArgs :
          LET first  == assign_vehicle_and_driver(db, t, p1, d1)
              second == assign_vehicle_and_driver(first.db, t, p2, d2)
          IN  (AssignSucceeded(first) /\ AssignSucceeded(second)) =>
                  /\ HoldsExactly(second.db, t, p2, d2)
                  /\ second.result[1] = "Updated deployment: trip '"
                  /\ {dep.deployment_id : dep \in second.db.deployments}
                         = {dep.deployment_id : dep \in first.db.deployments}
                  /\ Cardinality(second.db.deployments) = Cardinality(first.db.deployments)

\* the second of two assignments to the trip "Bulk - 00:02", which started with no deployment,
\* has just replaced the vehicle and driver of the first
C4_Witness ==
    /\ last.op = "assign_vehicle_and_driver"
    /\ last.args = <<"Bulk - 00:02", "KA-01-1111", "Amit">>
    /\ last.result[1] = "Updated deployment: trip '"
    /\ HoldsExactly(db, "Bulk - 00:02", "KA-01-1111", "Amit")

-----------------------------------------------------------------------------
(* Properties of deletion over all twelve tools, checked under Spec *)

\* the ids of the rows of a table that a step removes
RemovedIds(table) ==
    {r[RowId(table)] : r \in Rows(db, table)} \ {r[RowId(table)] : r \in Rows(db', table)}

\* the step removes a deployment that belongs to a trip with booking above zero
RemovesBookedDeployment ==
    \E dep \in db.deployments : \E trip \in db.daily_trips :
        /\ dep.deployment_id \in RemovedIds("deployments")
        /\ trip.trip_id = dep.trip_id
        /\ IsBooked(trip)

\* the invocation that made the step is remove_vehicle_from_trip with force set
ByForcedRemove == last'.op = "remove_vehicle_from_trip" /\ last'.args[2] = TRUE

\* the invocation that made the step is the generic query in write mode
ByWriteQuery == last'.op = "dynamic_run_sql_query" /\ last'.args[2] = "write"

\* C2 as stated: a deployment of a trip with booking above zero is deleted by no invocation
\* other than remove_vehicle_from_trip with the force flag set.
C2_OnlyForcedRemove == [][RemovesBookedDeployment => ByForcedRemove]_vars

\* C2: over all eleven structured operations and the generic query in either mode, a deployment
\* of a trip with booking above zero is deleted only by remove_vehicle_from_trip with the force
\* flag set or by a generic query in write mode.
C2_ForcedRemoveOrWriteQuery == [][RemovesBookedDeployment => (ByForcedRemove \/ ByWriteQuery)]_vars

\* DELETE FROM deployments in write mode has just deleted the deployment of the booked trip
\* "Bulk - 00:01"
C2_Witness ==
    /\ last.op = "dynamic_run_sql_query"
    /\ last.args = <<QDeleteDeployments, "write">>
    /\ last.result = <<"Query executed successfully (", "2", " rows affected).">>
    /\ db.deployments = {}
    /\ \E trip \in db.daily_trips : trip.display_name = "Bulk - 00:01" /\ IsBooked(trip)

\* the tables other than deployments
EntityTables == {"stops", "paths", "path_stops", "routes", "vehicles", "drivers", "daily_trips"}

\* the step removes no row outside deployments, and removes deployment rows only through
\* remove_vehicle_from_trip
ConfinedDeletion ==
    /\ \A table \in EntityTables : RemovedIds(table) = {}
    /\ RemovedIds("deployments") # {} => last'.op = "remove_vehicle_from_trip"

\* C9 as stated: no stop, path, path-stop, route, vehicle, driver or daily-trip row is ever
\* removed, and deployment rows disappear only through remove_vehicle_from_trip.
C9_DeletionConfined == [][ConfinedDeletion]_vars

\* C9: the eleven structured operations and the generic query in read mode remove no stop, path,
\* path-stop, route, vehicle, driver or daily-trip row, and among them deployment rows disappear
\* only through remove_vehicle_from_trip; a generic query in write mode is the one invocation
\* that can remove rows of any table.
C9_DeletionConfinedButWriteQuery == [][ByWriteQuery \/ ConfinedDeletion]_vars

\* remove_vehicle_from_trip has just deleted a seeded deployment while every seeded row of the
\* other tables is still stored
C9_Witness ==
    /\ last.op = "remove_vehicle_from_trip"
    /\ last.result[1] = "Removed vehicle '"
    /\ \E dep \in SeedDeployments : \A x \in db.deployments : x.deployment_id # dep.deployment_id
    /\ \A table \in EntityTables :
          {r[RowId(table)] : r \in Rows(SeedDb, table)} \subseteq {r[RowId(table)] : r \in Rows(db, table)}

-----------------------------------------------------------------------------
(* Properties of the generic query, checked under SpecQuery *)

\* the query text, stripped and lowered, holds one of the five denylisted keywords
HoldsDenylisted(query) ==
    \E keyword \in {KwDrop, KwAlter, KwPragma, KwAttach, KwDetach} : In(keyword, QLower[query])

\* C7: a generic query whose text holds a denylisted keyword ("drop table stops" among them) is
\* rejected in read and in write mode and the store stays as it was; "update vehicles set
\* capacity=0" is rejected in read mode with the store as it was, and in write mode it is
\* executed and committed, every vehicle's capacity becomes 0, and the answer reports the
\* number of vehicle rows as the affected-row count.
C7_DenylistEnforcement ==
    /\ HoldsDenylisted(QDropStops)
    /\ \A query \in QueryArgs, mode \in ModeArgs :
          HoldsDenylisted(query) =>
              LET r == dynamic_run_sql_query(db, query, mode)
              IN  r.db = db /\ r.result = <<"Unsafe SQL command blocked.">>
    /\ LET r == dynamic_run_sql_query(db, QUpdateCapacity, "read")
       IN  r.db = db /\ r.result = <<"Only SELECT queries allowed in read mode.">>
    /\ LET r == dynamic_run_sql_query(db, QUpdateCapacity, "write")
       IN  /\ r.result = <<"Query executed successfully (", IntStr(Cardinality(db.vehicles)),
                           " rows affected).">>
           /\ r.db = [db EXCEPT !.vehicles = {[v EXCEPT !.capacity = 0] : v \in db.vehicles}]

\* "drop table stops" has just been blocked in write mode, in a store where the write-mode
\* update has set the capacity of all three vehicles to 0
C7_Witness ==
    /\ last.op = "dynamic_run_sql_query"
    /\ last.args = <<QDropStops, "write">>
    /\ last.result = <<"Unsafe SQL command blocked.">>
    /\ db.stops = SeedStops
    /\ Cardinality(db.vehicles) = 3
    /\ \A v \in db.vehicles : v.capacity = 0

\* C8 as stated: after any sequence of generic queries, in read or write mode, the set of tables
\* and the columns of each are the ones init_db created.
C8_SchemaUnchanged == db.schema = SeedSchema

-----------------------------------------------------------------------------
(* Properties of the creation tools, checked under SpecCreate *)

\* the call stored a new entity
Created(r) == r.result[1] \in {"Created new stop '", "Created path '", "Created route '"}

\* the call answered that the name is taken
AlreadyExists(r) == r.result[Len(r.result)] = "' already exists."

\* the second of two calls with one name found the entity of the first and changed nothing
SecondCallRejected(first, second) ==
    (Created(first) \/ AlreadyExists(first)) =>
        /\ AlreadyExists(second)
        /\ second.db = first.db
        /\ ~second.raised

\* C10: for create_stop, create_path (with a non-empty stop list) and create_route, a second
\* call with the same name (the same path name and shift time for a route), whatever its other
\* arguments, answers "already exists" and leaves the store exactly as the first call left it:
\* one entity carries the name, and the rejected create_path adds no stop and no path-stop row.
C10_IdempotentCreation ==
    /\ \A name \in StopArgs, lat1 \in CoordArgs, lon1 \in CoordArgs, lat2 \in CoordArgs, lon2 \in CoordArgs :
          LET first  == create_stop(db, name, lat1, lon1)
              second == create_stop(first.db, name, lat2, lon2)
          IN  /\ SecondCallRejected(first, second)
              /\ Cardinality({s \in second.db.stops : s.name = name}) = 1
    /\ \A path_name \in NewPathArgs, names1 \in StopListArgs \ {<<>>}, names2 \in StopListArgs \ {<<>>} :
          LET first  == create_path(db, path_name, names1)
              second == create_path(first.db, path_name, names2)
          IN  /\ SecondCallRejected(first, second)
              /\ Cardinality({p \in second.db.paths : p.path_name = path_name}) = 1
              /\ second.db.stops = first.db.stops
              /\ second.db.path_stops = first.db.path_stops
    /\ \A path_name \in PathArgs, shift_time \in ShiftArgs, dir1 \in DirectionArgs, dir2 \in DirectionArgs :
          LET first  == create_route(db, path_name, shift_time, dir1)
              second == create_route(first.db, path_name, shift_time, dir2)
          IN  /\ SecondCallRejected(first, second)
              /\ (Created(first) \/ AlreadyExists(first)) =>
                    Cardinality({r \in second.db.routes :
                                    r.route_display_name = RouteDisplayName(path_name, shift_time)}) = 1

\* a second create_path for "Path-3" has just been answered with "already exists", and one
\* path of that name is stored
C10_Witness ==
    /\ last.op = "create_path"
    /\ last.result = <<"Path '", "Path-3", "' already exists.">>
    /\ Cardinality({p \in db.paths : p.path_name = "Path-3"}) = 1
    /\ \E p \in db.paths : p.path_name = "Path-3" /\ \E ps \in db.path_stops : ps.path_id = p.path_id

-----------------------------------------------------------------------------
(* Properties of the decision loop, checked under SpecLoop *)

\* the position in messages of the user message that opened the current turn
TurnStart == CHOOSE i \in 1..Len(messages) :
                 messages[i].type = "human" /\ \A j \in (i + 1)..Len(messages) : messages[j].type # "human"

\* the messages the graph has added in the current turn
TurnTrace == SubSeq(messages, TurnStart + 1, Len(messages))

IsAi(m) == m.type = "ai"

IsTool(m) == m.type = "tool"

\* the answers of the Reason steps of the current turn, in order
ReasonSteps == SelectSeq(TurnTrace, IsAi)

\* the session history as it stood when the current turn's graph run started
HistoryAtStart ==
    [i \in 1..TurnStart |->
        [role |-> IF messages[i].type = "human" THEN "user" ELSE "assistant", content |-> messages[i].content]]

\* the first Reason step of the turn asked for exactly one invocation and the second for none
OneInvocationThenFinal ==
    /\ messages # <<>>
    /\ Len(ReasonSteps) >= 2
    /\ Len(ReasonSteps[1].tool_calls) = 1
    /\ Len(ReasonSteps[2].tool_calls) = 0

\* C5: when the first Reason step of a turn returns exactly one invocation and the second a
\* final message with none, the turn consists of that request, one tool result for it and the
\* final message: two Reason steps, one dispatch, the graph at its end; and once the handler
\* has stored the reply, the session history is the history of the turn's start plus one
\* assistant turn holding the text of the final message.
C5_SingleRound ==
    messages # <<>> =>
        LET steps == ReasonSteps
            trace == TurnTrace
            start == HistoryAtStart
        IN  (Len(steps) >= 2 /\ Len(steps[1].tool_calls) = 1 /\ Len(steps[2].tool_calls) = 0) =>
                /\ Len(steps) = 2
                /\ reasons = 2
                /\ dispatches = 1
                /\ Len(SelectSeq(trace, IsTool)) = 1
                /\ Len(trace) = 3
                /\ trace[1] = steps[1]
                /\ IsTool(trace[2])
                /\ trace[2].tool_call_id = Val(steps[1].tool_calls[1].id)
                /\ trace[3] = steps[2]
                /\ pc \in {"end", "idle"}
                /\ pc = "end" => chat_history = start
                /\ pc = "idle" =>
                      chat_history = Append(start, [role |-> "assistant", content |-> steps[2].content])

\* a turn of one invocation and a final message has ended and its reply is stored
C5_Witness ==
    /\ OneInvocationThenFinal
    /\ pc = "idle"
    /\ reasons = 2
    /\ dispatches = 1
    /\ chat_history[Len(chat_history)] = [role |-> "assistant", content |-> <<"Done.">>]
    /\ last.op = "tool_remove_vehicle_from_trip"

\* C6: right after a Reason step the loop is at Act if the step returned at least one
\* invocation and at its end if it returned none; the turn has ended if and only if some Reason
\* step of it returned no invocations, so while every Reason step requests invocations (none
\* of them failing) the loop is at Reason or Act after any number of rounds, and the graph
\* holds no counter of rounds.
C6_TerminationCondition ==
    messages # <<>> =>
        LET steps  == ReasonSteps
            answer == messages[Len(messages)]
        IN  /\ (pc # "idle" /\ IsAi(answer)) =>
                  pc = (IF Len(answer.tool_calls) > 0 THEN "tools" ELSE "end")
            /\ pc = "tools" => (IsAi(answer) /\ Len(answer.tool_calls) > 0)
            /\ pc = "end" => (IsAi(answer) /\ Len(answer.tool_calls) = 0)
            /\ pc \in {"end", "idle"} <=> \E k \in 1..Len(steps) : Len(steps[k].tool_calls) = 0
            /\ reasons = Len(steps)
            /\ (pc # "raised" /\ \A k \in 1..Len(steps) : Len(steps[k].tool_calls) > 0)
                  => pc \in {"agent", "tools"}

\* every Reason step of the turn so far has requested invocations, as many steps as the model
\* follows, and the loop is at Act again
C6_Witness ==
    /\ pc = "tools"
    /\ reasons = MaxRounds
    /\ Len(ReasonSteps) = MaxRounds
    /\ \A k \in 1..Len(ReasonSteps) : Len(ReasonSteps[k].tool_calls) > 0
    /\ dispatches >= 1

-----------------------------------------------------------------------------
(* Ordering of the stops of a path, checked under SpecCreate *)

\* the text list_stops_for_path gives for a path with these stop names, written out
StopsText(path_name, stop_names) ==
    <<"Stops on ", path_name, ": ">>
        \o [i \in 1..(2 * Len(stop_names) - 1) |-> IF i % 2 = 1 THEN stop_names[(i + 1) \div 2] ELSE " → "]

\* the stop names of a stored path by ascending seq, read off the rows
NamesBySeq(S, path) ==
    LET rows == {ps \in S.path_stops : ps.path_id = path.path_id}
    IN  [k \in 1..Cardinality(rows) |->
            (CHOOSE s \in S.stops : \E ps \in rows : ps.seq = k /\ ps.stop_id = s.stop_id).name]

\* at the current store: a path created now lists its stops in the order given, and a route
\* created on it right away starts at the first and ends at the last of them
OrderedWhenCreated ==
    \A path_name \in NewPathArgs, stop_names \in StopListArgs \ {<<>>} :
        LET made == create_path(db, path_name, stop_names)
        IN  made.result[1] = "Created path '" =>
                /\ list_stops_for_path(made.db, path_name).result = StopsText(path_name, stop_names)
                /\ \A shift_time \in ShiftArgs, direction \in DirectionArgs :
                      LET r == create_route(made.db, path_name, shift_time, direction)
                      IN  /\ r.result = <<"Created route '", RouteDisplayName(path_name, shift_time), "' (",
                                          direction, ") from ", stop_names[1], " to ",
                                          stop_names[Len(stop_names)], ".">>
                          /\ \E route \in r.db.routes \ made.db.routes :
                                /\ route.start_point = stop_names[1]
                                /\ route.end_point = stop_names[Len(stop_names)]

\* at the current store: every stored path lists the names its rows give by seq, and every
\* stored route starts at the first and ends at the last stop of its path
OrderedWhenStored ==
    /\ \A path \in db.paths :
          list_stops_for_path(db, path.path_name).result = StopsText(path.path_name, NamesBySeq(db, path))
    /\ \A route \in db.routes : \E path \in db.paths :
          /\ path.path_id = route.path_id
          /\ route.start_point = NamesBySeq(db, path)[1]
          /\ route.end_point = NamesBySeq(db, path)[Len(NamesBySeq(db, path))]

\* the step leaves the stops of every stored path as they are
StopsOfPathsKept ==
    \A path \in db.paths : path \in db'.paths /\ NamesBySeq(db', path) = NamesBySeq(db, path)

\* C11: a path created with the stop list s1..sn is listed by list_stops_for_path as exactly
\* s1 -> ... -> sn in that order with the arrow separator; no later step of the creation tools
\* changes the stops of a stored path; and every route created on a path, right after its
\* creation or later, has start point s1 and end point sn.
C11_OrderingInvariant ==
    /\ [](OrderedWhenCreated /\ OrderedWhenStored)
    /\ [][StopsOfPathsKept]_vars

\* a route has just been created on "Path-3", made earlier from Hub, Temple, and it runs
\* from Hub to Temple
C11_Witness ==
    /\ last.op = "create_route"
    /\ last.args[1] = "Path-3"
    /\ last.result[1] = "Created route '"
    /\ list_stops_for_path(db, "Path-3").result = <<"Stops on ", "Path-3", ": ", "Hub", " → ", "Temple">>
    /\ \E route \in db.routes :
          /\ route.route_display_name = RouteDisplayName("Path-3", last.args[2])
          /\ route.start_point = "Hub"
          /\ route.end_point = "Temple"

-----------------------------------------------------------------------------
(* Failure of the reasoning capability, checked under SpecFault *)

\* C12 as stated: when the reasoning capability errors during a turn no fault leaves the turn
\* handler, and once the handler is done the session history does not end with a user turn
\* that no assistant turn follows.
C12_GracefulFallback ==
    /\ pc # "raised"
    /\ (pc = "idle" /\ chat_history # <<>>) => chat_history[Len(chat_history)].role = "assistant"

-----------------------------------------------------------------------------
(* References between tables, checked under SpecQuery *)

\* C13 as stated: in every reachable state, after generic write queries that delete rows too,
\* no path-stop, route, trip or deployment row references a row that is no longer stored:
\* dependents of a deleted path, route or trip are gone with it, and a deployment of a deleted
\* vehicle or driver holds an absent reference.
C13_ReferentialIntegrity ==
    /\ \A ps \in db.path_stops :
          /\ \E path \in db.paths : path.path_id = ps.path_id
          /\ \E stop \in db.stops : stop.stop_id = ps.stop_id
    /\ \A route \in db.routes : \E path \in db.paths : path.path_id = route.path_id
    /\ \A trip \in db.daily_trips : \E route \in db.routes : route.route_id = trip.route_id
    /\ \A dep \in db.deployments :
          /\ \E trip \in db.daily_trips : trip.trip_id = dep.trip_id
          /\ dep.vehicle_id = NULL \/ \E v \in db.vehicles : Val(v.vehicle_id) = dep.vehicle_id
          /\ dep.driver_id = NULL \/ \E d \in db.drivers : Val(d.driver_id) = dep.driver_id

-----------------------------------------------------------------------------
(* The reformatted history, checked under SpecImage *)

\* C14: for the session history of every reachable state and every image argument, the
\* reformatted list has the length and order of the history, user turns as human messages and
\* all others as assistant messages with their content; at most one message carries an image,
\* and one that does is the last element, a user turn, and carries the image given. In the
\* messages of a running turn only the user message that opened the turn can carry an image.
C14_ImageAttachment ==
    /\ \A image \in ImageArgs :
          LET msgs == history_to_graph_messages(chat_history, image)
          IN  /\ Len(msgs) = Len(chat_history)
              /\ \A i \in 1..Len(msgs) :
                    /\ msgs[i].type = (IF chat_history[i].role = "user" THEN "human" ELSE "ai")
                    /\ msgs[i].content = chat_history[i].content
                    /\ msgs[i].image # NULL =>
                          /\ i = Len(chat_history)
                          /\ chat_history[i].role = "user"
                          /\ image # NULL
                          /\ msgs[i].image = image
              /\ Cardinality({i \in 1..Len(msgs) : msgs[i].image # NULL}) <= 1
    /\ \A i \in 1..Len(messages) : messages[i].image # NULL => i = TurnStart

\* a second turn was submitted with a screenshot: its user message carries the image and the
\* messages of the first turn carry none
C14_Witness ==
    /\ pc = "agent"
    /\ Len(chat_history) = 3
    /\ Len(messages) = 3
    /\ messages[3].image = Val("iVBORw0KGgo=")
    /\ messages[1].image = NULL
    /\ messages[2].type = "ai"

-----------------------------------------------------------------------------
(* The session history, checked under SpecLoop *)

\* the step leaves the history alone or appends one turn to it: a user turn when an input
\* arrives, or, when the graph has ended, an assistant turn with the content of the final answer
AppendsOneTurn ==
    \/ chat_history' = chat_history
    \/ \E turn \in {chat_history'[Len(chat_history')]} :
          /\ chat_history' = Append(chat_history, turn)
          /\ \/ turn.role = "user" /\ pc = "idle" /\ pc' = "agent"
             \/ /\ turn.role = "assistant"
                /\ pc = "end"
                /\ pc' = "idle"
                /\ IsAi(messages[Len(messages)])
                /\ messages[Len(messages)].tool_calls = <<>>
                /\ turn.content = messages[Len(messages)].content

\* user and assistant turns alternate, a completed turn has added one of each, assistant turns
\* hold final answers, and no request or result of the decision loop is stored
AlternatingTurns ==
    /\ \A i \in 1..Len(chat_history) :
          /\ chat_history[i].role = (IF i % 2 = 1 THEN "user" ELSE "assistant")
          /\ DOMAIN chat_history[i] = {"role", "content"}
          /\ chat_history[i].role = "assistant" => chat_history[i].content \in FinalTexts
          /\ chat_history[i].role = "user" => chat_history[i].content \in UserTexts
    /\ pc = "idle" <=> Len(chat_history) % 2 = 0
    /\ (pc = "idle" /\ messages # <<>>) => Len(chat_history) = TurnStart + 1
    /\ (pc # "idle") => Len(chat_history) = TurnStart

-----------------------------------------------------------------------------
(* The Act step, checked under SpecLoop *)

\* the position in messages of the answer of the latest Reason step
LastReasonAt == CHOOSE i \in 1..Len(messages) :
                    IsAi(messages[i]) /\ i > TurnStart /\ \A j \in (i + 1)..Len(messages) : ~IsAi(messages[j])

\* the Reason step answered at position i of the trace asked for invocations, and the tools
\* node has run since
ActedOn(trace, i) ==
    /\ IsAi(trace[i])
    /\ Len(trace[i].tool_calls) > 0
    /\ ~(i = Len(trace) /\ pc = "tools")

\* C16: for every Reason step of the turn that returned invocations i1..ik and has been acted
\* on, the k messages after its answer are result messages, the j-th tagged with the identifier
\* of ij, and what follows them, if anything, is the answer of the next Reason step; no other
\* result messages exist; and the latest Reason step was given the system instruction followed
\* by all messages before its answer, these results included.
C16_ActStep ==
    messages # <<>> =>
        LET trace == TurnTrace
        IN  /\ \A i \in 1..Len(trace) :
                  ActedOn(trace, i) =>
                      LET calls == trace[i].tool_calls
                      IN  /\ Len(trace) >= i + Len(calls)
                          /\ \A j \in 1..Len(calls) :
                                /\ IsTool(trace[i + j])
                                /\ trace[i + j].tool_call_id = Val(calls[j].id)
                          /\ Len(trace) > i + Len(calls) => IsAi(trace[i + Len(calls) + 1])
            /\ \A i \in 1..Len(trace) :
                  IsTool(trace[i]) =>
                      \E a \in 1..(i - 1) :
                          /\ IsAi(trace[a])
                          /\ i - a <= Len(trace[a].tool_calls)
                          /\ trace[i].tool_call_id = Val(trace[a].tool_calls[i - a].id)
            /\ Len(SelectSeq(trace, IsTool)) = dispatches
            /\ \A i \in 1..Len(trace) : IsAi(trace[i]) \/ IsTool(trace[i])
            /\ reasons > 0 =>
                  /\ request.messages[1].type = "system"
                  /\ request.messages[1].content = build_system_prompt(db, current_page)
                  /\ Tail(request.messages) = SubSeq(messages, 1, LastReasonAt - 1)

\* a Reason step asked for two invocations, both results were appended in order, and the next
\* Reason step was given the instruction, the history, the request and the two results
C16_Witness ==
    /\ reasons = 2
    /\ Len(TurnTrace) = 4
    /\ Len(TurnTrace[1].tool_calls) = 2
    /\ TurnTrace[2].tool_call_id = Val(TurnTrace[1].tool_calls[1].id)
    /\ TurnTrace[3].tool_call_id = Val(TurnTrace[1].tool_calls[2].id)
    /\ TurnTrace[2].tool_call_id # TurnTrace[3].tool_call_id
    /\ IsAi(TurnTrace[4])
    /\ Len(request.messages) = 1 + TurnStart + 3
    /\ request.messages[Len(request.messages)] = TurnTrace[3]

-----------------------------------------------------------------------------
(* Faults of the operations, checked under SpecText *)

\* C17 as stated: whatever the store and the arguments, the invocation dispatched last returned
\* a text and raised no exception past its tool.
C17_TextNeverFault == ~last.raised

-----------------------------------------------------------------------------
(* The page context, checked under SpecPage *)

\* one invocation of each tool of the catalog
CatalogCalls ==
    { [name |-> "tool_count_unassigned_vehicles", args |-> <<>>, id |-> 1],
      [name |-> "tool_get_trip_status", args |-> <<"Bulk - 00:01">>, id |-> 1],
      [name |-> "tool_list_stops_for_path", args |-> <<"Path-1">>, id |-> 1],
      [name |-> "tool_list_routes_for_path", args |-> <<"Path-1">>, id |-> 1],
      [name |-> "tool_assign_vehicle_and_driver", args |-> <<"Bulk - 00:02", "KA-05-9999", "Sneha">>, id |-> 1],
      [name |-> "tool_remove_vehicle_from_trip", args |-> <<"Bulk - 00:01", FALSE>>, id |-> 1],
      [name |-> "tool_create_stop", args |-> <<"Hub", NULL, NULL>>, id |-> 1],
      [name |-> "tool_create_path", args |-> <<"Path-3", <<"Hub", "Temple">> >>, id |-> 1],
      [name |-> "tool_create_route", args |-> <<"Path-1", "09:00", "IN">>, id |-> 1],
      [name |-> "tool_list_active_routes", args |-> <<>>, id |-> 1],
      [name |-> "tool_list_unassigned_drivers", args |-> <<>>, id |-> 1],
      [name |-> "tool_run_dynamic_quries", args |-> <<QSelectVehicles, "read">>, id |-> 1] }

\* the pages the radio offers, the default of _agent_node and one more value
AnyPage == PageArgs \cup {"unknown", "settings"}

\* C18: for every value of the current page the reasoning capability is offered the same
\* catalog of twelve distinct operations, whenever the tools node is about to run it
\* dispatches every one of the twelve to a text result whatever the page of the running turn,
\* and the request made on any other page differs from the one made on the current page in
\* the text of the system instruction and in nothing else.
C18_PageNeverRestricts ==
    /\ Len(TOOLS) = 12
    /\ \A i, j \in 1..Len(TOOLS) : TOOLS[i] = TOOLS[j] => i = j
    /\ {call.name : call \in CatalogCalls} = {TOOLS[i] : i \in 1..Len(TOOLS)}
    /\ request # NULL => request.tools = TOOLS
    /\ LET r1 == llm_request(db, current_page, messages)
       IN  \A page \in AnyPage :
               LET r2 == llm_request(db, page, messages)
               IN  /\ r2.tools = TOOLS
                   /\ Tail(r2.messages) = Tail(r1.messages)
                   /\ r2.messages[1].type = "system"
                   /\ (r2.messages[1].content = r1.messages[1].content) <=> (page = current_page)
    /\ pc = "tools" =>
          \A call \in CatalogCalls :
              LET out == RunTools(db, <<call>>, 1, <<>>).out
              IN  Len(out) = 1 /\ IsTool(out[1]) /\ out[1].content # <<>>

\* on the manageRoute page the reasoning capability was offered the whole catalog and a
\* bus-dashboard operation, remove_vehicle_from_trip, has been dispatched
C18_Witness ==
    /\ current_page = "manageRoute"
    /\ request # NULL
    /\ request.tools = TOOLS
    /\ request.messages[1].content = build_system_prompt(db, "manageRoute")
    /\ dispatches >= 1
    /\ last.op = "tool_remove_vehicle_from_trip"

-----------------------------------------------------------------------------
(* Properties of the removal tiers, checked under SpecText and SpecDeploy *)

\* C19: for every trip name and either value of force, remove_vehicle_from_trip does not
\* raise and gives exactly one of four outcomes, decided in this order: no trip of that name,
\* "not found"; a trip without a deployment, "No vehicle is currently assigned"; a deployment,
\* a booking above zero and force unset, the warning; otherwise the removal. The first three
\* leave the store unchanged; the removal deletes the one deployment row of the trip and
\* changes no other row and no other table.
C19_FourOutcomes ==
    \A name \in TripArgs, force \in BOOLEAN :
        LET r     == remove_vehicle_from_trip(db, name, force)
            trips == TripsOnRoutes(db, name)
        IN  /\ ~r.raised
            /\ IF trips = {}
               THEN r.result = <<"Trip '", name, "' not found.">> /\ r.db = db
               ELSE LET trip == FetchOne(trips, "trip_id")
                        deps == DeploymentsOfTrip(db, trip.trip_id)
                    IN  IF deps = {}
                        THEN /\ r.result = <<"No vehicle is currently assigned to trip '", name, "'.">>
                             /\ r.db = db
                        ELSE IF IsBooked(trip) /\ ~force
                        THEN /\ r.result[1] = "WARNING: "
                             /\ r.db = db
                        ELSE /\ Cardinality(deps) = 1
                             /\ r.result[1] = "Removed vehicle '"
                             /\ r.db = [db EXCEPT !.deployments = @ \ deps]

-----------------------------------------------------------------------------
(* Properties of the removal gate inside the decision loop, checked under SpecLoop *)

\* the store the k-th invocation of a batch runs on
StoreBefore(calls, k) == RunTools(db, SubSeq(calls, 1, k - 1), 1, <<>>).db

\* the trip of that name has a booking above zero and a deployment
BookedAndDeployed(S, name) ==
    \E trip \in S.daily_trips :
        /\ trip.display_name = name
        /\ IsBooked(trip)
        /\ DeploymentsOfTrip(S, trip.trip_id) # {}

\* a tool message of the conversation holds the warning
WarningInConversation ==
    \E i \in 1..Len(messages) : IsTool(messages[i]) /\ Contains(messages[i].content, "WARNING: ")

\* C20: in every step of the tools node, the result of each remove_vehicle_from_trip
\* invocation is the one the function gives on the store it finds and its arguments alone,
\* whatever was invoked or said before; and an invocation with force=true on a trip that is
\* booked and deployed in that store returns the removal text and deletes the deployment,
\* also when no warning was returned earlier and no user turn came in between.
C20_StatelessGate ==
    [][pc = "tools" =>
          LET calls == messages[Len(messages)].tool_calls
          IN  \A k \in 1..Len(calls) :
                  calls[k].name = "tool_remove_vehicle_from_trip" =>
                      LET S      == StoreBefore(calls, k)
                          r      == remove_vehicle_from_trip(S, calls[k].args[1], calls[k].args[2])
                          answer == messages'[Len(messages) + k]
                      IN  /\ IsTool(answer)
                          /\ answer.content = r.result
                          /\ k = Len(calls) => db' = r.db
                          /\ (calls[k].args[2] /\ BookedAndDeployed(S, calls[k].args[1])) =>
                                /\ answer.content[1] = "Removed vehicle '"
                                /\ ~BookedAndDeployed(r.db, calls[k].args[1])
                                /\ Cardinality(r.db.deployments) = Cardinality(S.deployments) - 1
    ]_vars

\* the first invocation of the first turn was a forced removal of the vehicle of the booked
\* trip "Bulk - 00:01": it was executed, and the conversation holds no warning
C20_Witness ==
    /\ Len(chat_history) = 1
    /\ dispatches = 1
    /\ last.op = "tool_remove_vehicle_from_trip"
    /\ last.args = <<"Bulk - 00:01", TRUE>>
    /\ last.result[1] = "Removed vehicle '"
    /\ ~WarningInConversation
    /\ ~BookedAndDeployed(db, "Bulk - 00:01")
    /\ BookedAndDeployed(SeedDb, "Bulk - 00:01")

-----------------------------------------------------------------------------
(* Properties of the assignment, checked under SpecDeploy *)

\* C21: for every trip name, plate and driver name, assign_vehicle_and_driver does not raise;
\* when the trip, the vehicle or the driver is not stored it returns the "not found" sentence
\* of the first missing one, in the order trip, vehicle, driver, and leaves the store
\* unchanged; when all three are stored the trip has afterwards exactly one deployment, with
\* that vehicle and that driver, and the deployments of the other trips are as before.
C21_AssignFailsClosed ==
    \A t \in TripArgs, v \in PlateArgs, d \in DriverArgs :
        LET r        == assign_vehicle_and_driver(db, t, v, d)
            trips    == {x \in db.daily_trips : x.display_name = t}
            vehicles == {x \in db.vehicles : x.license_plate = v}
            drivers  == {x \in db.drivers : x.name = d}
        IN  /\ ~r.raised
            /\ trips = {} => (r.result = <<"Trip '", t, "' not found.">> /\ r.db = db)
            /\ (trips # {} /\ vehicles = {}) =>
                  (r.result = <<"Vehicle '", v, "' not found.">> /\ r.db = db)
            /\ (trips # {} /\ vehicles # {} /\ drivers = {}) =>
                  (r.result = <<"Driver '", d, "' not found.">> /\ r.db = db)
            /\ (trips # {} /\ vehicles # {} /\ drivers # {}) =>
                  \E trip \in trips, vehicle \in vehicles, driver \in drivers :
                      /\ \E dep \in r.db.deployments :
                            /\ DeploymentsOfTrip(r.db, trip.trip_id) = {dep}
                            /\ dep.vehicle_id = Val(vehicle.vehicle_id)
                            /\ dep.driver_id = Val(driver.driver_id)
                      /\ {dep \in r.db.deployments : dep.trip_id # trip.trip_id}
                            = {dep \in db.deployments : dep.trip_id # trip.trip_id}
                      /\ \A table \in {"stops", "paths", "path_stops", "routes", "vehicles", "drivers",
                                       "daily_trips", "schema"} : r.db[table] = db[table]

\* an assignment that named a stored trip, an absent vehicle and an absent driver has just
\* been answered with the sentence about the vehicle, and no deployment was added
C21_Witness ==
    /\ last.op = "assign_vehicle_and_driver"
    /\ last.args = <<"Bulk - 00:02", "XX-00", "Nobody">>
    /\ last.result = <<"Vehicle '", "XX-00", "' not found.">>
    /\ \E trip \in db.daily_trips :
          trip.display_name = "Bulk - 00:02" /\ DeploymentsOfTrip(db, trip.trip_id) = {}

-----------------------------------------------------------------------------
(* Properties of paths and their stops, checked under SpecCreate *)

\* the path_stops rows of a path
RowsOfPath(S, path_id) == {ps \in S.path_stops : ps.path_id = path_id}

\* the path has a stop, and the positions of its rows are 1..n, each taken once
WellFormed(S, path_id) ==
    LET rows == RowsOfPath(S, path_id)
    IN  /\ rows # {}
        /\ {ps.seq : ps \in rows} = 1..Cardinality(rows)

\* C22: in every state reached by create_stop, create_path and create_route calls, rejected
\* ones included, every stored path has at least one stop and the positions of its path-stop
\* rows are exactly 1..n, each once; and a create_path call from that state either leaves the
\* whole store as it is, or adds one path together with one row per stop name of the list, at
\* the positions 1..n, and no row to any other path.
C22_PathWellFormed ==
    /\ \A path \in db.paths : WellFormed(db, path.path_id)
    /\ \A path_name \in NewPathArgs, stop_names \in StopListArgs :
          LET r == create_path(db, path_name, stop_names)
          IN  /\ ~r.raised
              /\ \/ r.db = db
                 \/ \E path \in r.db.paths :
                       /\ path.path_name = path_name
                       /\ r.db.paths = db.paths \cup {path}
                       /\ path \notin db.paths
                       /\ RowsOfPath(db, path.path_id) = {}
                       /\ r.db.path_stops \ db.path_stops = RowsOfPath(r.db, path.path_id)
                       /\ db.path_stops \subseteq r.db.path_stops
                       /\ Cardinality(RowsOfPath(r.db, path.path_id)) = Len(stop_names)
                       /\ WellFormed(r.db, path.path_id)
              /\ r.result[1] = "Created path '" <=> r.db # db

\* "Path-3" is stored with three path-stop rows at the positions 1, 2 and 3, and the last
\* call was a create_path that was rejected for its empty stop list
C22_Witness ==
    /\ last.op = "create_path"
    /\ last.result = <<"Need at least one stop to create a path.">>
    /\ \E path \in db.paths :
          /\ path.path_name = "Path-3"
          /\ {ps.seq : ps \in RowsOfPath(db, path.path_id)} = {1, 2, 3}
          /\ Cardinality(RowsOfPath(db, path.path_id)) = 3

-----------------------------------------------------------------------------
(* Properties of the stops of a created path, checked under SpecCreate *)

\* the names of a stop list
NamesOf(stop_names) == {stop_names[i] : i \in 1..Len(stop_names)}

\* the names of the stored stops
StoredNames(S) == {s.name : s \in S.stops}

\* C23: no two stored stops carry one name, in every state reached by the creation tools;
\* create_path with an empty stop list answers that it needs a stop and leaves the store
\* unchanged; and create_path with a non-empty list and a path name not yet stored keeps
\* every stored stop as it is, coordinates included, and adds exactly one stop, with absent
\* latitude and longitude, for each name of the list that was not stored, and every path-stop
\* row it adds refers to the one stop of its name.
C23_StopHandling ==
    /\ \A s1, s2 \in db.stops : s1.name = s2.name => s1 = s2
    /\ \A path_name \in NewPathArgs :
          LET r == create_path(db, path_name, <<>>)
          IN  r.db = db /\ r.result = <<"Need at least one stop to create a path.">>
    /\ \A path_name \in NewPathArgs, stop_names \in StopListArgs \ {<<>>} :
          ~PathNameTaken(db, path_name) =>
              LET r     == create_path(db, path_name, stop_names)
                  added == r.db.stops \ db.stops
              IN  /\ r.result[1] = "Created path '"
                  /\ db.stops \subseteq r.db.stops
                  /\ {s.name : s \in added} = NamesOf(stop_names) \ StoredNames(db)
                  /\ Cardinality(added) = Cardinality(NamesOf(stop_names) \ StoredNames(db))
                  /\ \A s \in added : s.latitude = NULL /\ s.longitude = NULL
                  /\ \A ps \in r.db.path_stops \ db.path_stops :
                        \E s \in r.db.stops : s.stop_id = ps.stop_id /\ s.name = stop_names[ps.seq]

\* "Path-3" has just been created over Yard, Hub, Yard when Hub was already stored with
\* coordinates: Hub keeps them, and Yard was created once, without coordinates
C23_Witness ==
    /\ last.op = "create_path"
    /\ last.args = <<"Path-3", <<"Yard", "Hub", "Yard">>>>
    /\ last.result[1] = "Created path '"
    /\ \E s \in db.stops : s.name = "Hub" /\ s.latitude = Val("12.900")
    /\ Cardinality({s \in db.stops : s.name = "Yard"}) = 1
    /\ \A s \in db.stops : s.name = "Yard" => (s.latitude = NULL /\ s.longitude = NULL)

-----------------------------------------------------------------------------
(* Properties of the fields of a route, checked under SpecDomain *)

\* C24: every stored route has a direction of IN or OUT and a status of active or
\* deactivated; create_route on a stored path that has stops and a free display name stores
\* one route with status active and the display name "{path_name} - {shift_time}"; and
\* create_route on a path that is not stored, or that has no stops, leaves the store unchanged.
C24_RouteFieldDomains ==
    /\ \A route \in db.routes :
          /\ route.direction \in {"IN", "OUT"}
          /\ route.status \in {"active", "deactivated"}
    /\ \A path_name \in PathArgs, shift_time \in ShiftArgs, direction \in AnyDirectionArgs :
          LET r     == create_route(db, path_name, shift_time, direction)
              found == {p \in db.paths : p.path_name = path_name}
          IN  /\ ~r.raised
              /\ (found = {} \/ \A p \in found : {ps \in db.path_stops : ps.path_id = p.path_id} = {}) =>
                    r.db = db
              /\ r.db # db =>
                    \E route \in r.db.routes :
                        /\ r.db.routes = db.routes \cup {route}
                        /\ route \notin db.routes
                        /\ route.status = "active"
                        /\ route.route_display_name = RouteDisplayName(path_name, shift_time)
                        /\ route.direction = direction

-----------------------------------------------------------------------------
(* Properties of the unassigned counts, checked under Spec *)

\* the vehicles no deployment refers to
FreeVehicles(S) == {v \in S.vehicles : \A dep \in S.deployments : dep.vehicle_id # Val(v.vehicle_id)}

\* the drivers no deployment refers to
FreeDrivers(S) == {d \in S.drivers : \A dep \in S.deployments : dep.driver_id # Val(d.driver_id)}

\* the names a list_unassigned_drivers text lists after its count, separators left out
ListedNames(text) == [i \in 1..((Len(text) - 2) \div 2) |-> text[2 * i + 2]]

\* C25: in every state, count_unassigned_vehicles gives the number of vehicles that no
\* deployment refers to; list_unassigned_drivers answers "All drivers are currently assigned."
\* exactly when every driver is referred to by a deployment, and otherwise lists each driver
\* no deployment refers to once and no other, with a count equal to the number of names
\* listed; and both leave the store unchanged.
C25_UnassignedCounts ==
    LET vehicles == count_unassigned_vehicles(db)
        drivers  == list_unassigned_drivers(db)
        listed   == ListedNames(drivers.result)
    IN  /\ vehicles.db = db /\ ~vehicles.raised
        /\ vehicles.result = <<"There are ", IntStr(Cardinality(FreeVehicles(db))),
                               " vehicles not assigned to any trip right now.">>
        /\ drivers.db = db /\ ~drivers.raised
        /\ drivers.result = <<"All drivers are currently assigned.">> <=> FreeDrivers(db) = {}
        /\ FreeDrivers(db) # {} =>
              /\ drivers.result[1] = "Unassigned drivers ("
              /\ drivers.result[2] = IntStr(Len(listed))
              /\ drivers.result[3] = "): "
              /\ {listed[i] : i \in 1..Len(listed)} = {d.name : d \in FreeDrivers(db)}
              /\ Len(listed) = Cardinality(FreeDrivers(db))
              /\ \A i \in 1..(Len(listed) - 1) : drivers.result[2 * i + 3] = ", "

\* every driver is deployed and list_unassigned_drivers has just said so
C25_Witness ==
    /\ last.op = "list_unassigned_drivers"
    /\ last.result = <<"All drivers are currently assigned.">>
    /\ db.drivers # {}
    /\ \A d \in db.drivers : \E dep \in db.deployments : dep.driver_id = Val(d.driver_id)

-----------------------------------------------------------------------------
(* Properties of the read mode, checked under SpecQuery *)

\* C26: in every state and for every query text, dynamic_run_sql_query in read mode leaves
\* the store unchanged and raises nothing, whether it answers that the statement is blocked,
\* that only SELECT is allowed, with an SQL error, with no rows, or with a table of rows.
C26_ReadModeFrame ==
    \A query \in QueryArgs :
        LET r == dynamic_run_sql_query(db, query, "read")
        IN  /\ r.db = db
            /\ ~r.raised
            /\ r.result # <<>>
            /\ r.result[1] # "Query executed successfully ("

\* a text that starts with a retrieval and goes on with a DELETE has just been issued in
\* read mode and answered with an SQL error, after a write query had changed the store
C26_Witness ==
    /\ last.op = "dynamic_run_sql_query"
    /\ last.args = <<QSelectThenDelete, "read">>
    /\ last.result[1] = "SQL error: "
    /\ db.deployments # {}
    /\ db # SeedDb

-----------------------------------------------------------------------------
(* Properties of two sessions assigning at once, checked under SpecRace *)

\* no trip has two deployment rows
AtMostOneDeployment ==
    \A trip \in db.daily_trips : Cardinality(DeploymentsOfTrip(db, trip.trip_id)) <= 1

\* no call of a session has ended in an exception
NeitherRaises == \A s \in Sessions : ~running[s].raised

\* once both sessions have assigned to one trip, its deployment holds the vehicle and the
\* driver of one of the two calls
OneCallWins ==
    (/\ \A s \in Sessions : running[s].pc = "done"
     /\ \A s, t \in Sessions : running[s].args[1] = running[t].args[1]) =>
        \E s \in Sessions : \E dep \in db.deployments :
            /\ dep.trip_id = running[s].trip[1]
            /\ dep.vehicle_id = running[s].vehicle
            /\ dep.driver_id = running[s].driver

\* C27: under every interleaving of the statements of two assign_vehicle_and_driver calls
\* for one trip, made by two sessions, no trip ever has two deployment rows, neither call
\* raises, and once both calls have ended the deployment of the trip holds the vehicle and
\* the driver of one of the calls.
C27_ConcurrentAssign ==
    /\ AtMostOneDeployment
    /\ NeitherRaises
    /\ OneCallWins

-----------------------------------------------------------------------------
(* Properties of a removal next to a booking update, checked under SpecGate *)

\* the step is the DELETE of an unforced remove_vehicle_from_trip call of session s
UnforcedDelete(s) ==
    /\ running[s].op = "remove_vehicle_from_trip"
    /\ running[s].pc = "delete"
    /\ ~running[s].args[2]
    /\ running'[s].pc = "done"
    /\ db'.deployments # db.deployments

\* C28: under every interleaving of the statements of remove_vehicle_from_trip with
\* force=false and the writes of a session that changes the booking percentage of the trip,
\* a step that deletes the deployment is taken only when the stored booking percentage of the
\* trip is not above zero.
C28_CheckThenDelete ==
    [][\A s \in Sessions :
          UnforcedDelete(s) =>
              \A trip \in db.daily_trips :
                  trip.trip_id = running[s].trip[1].trip_id => ~IsBooked(trip)]_vars

-----------------------------------------------------------------------------
(* Properties of the references of a deployment, checked under SpecStructured *)

\* the deployment refers to a stored vehicle and to a stored driver
RefersToStored(S, dep) ==
    /\ \E v \in S.vehicles : dep.vehicle_id = Val(v.vehicle_id)
    /\ \E d \in S.drivers : dep.driver_id = Val(d.driver_id)

\* C29: in every state reached by the structured tools alone, every deployment row refers
\* to a stored vehicle and a stored driver; an assignment that names an absent vehicle or
\* driver leaves the deployments as they are; and an assignment of a stored vehicle and driver
\* to a stored trip goes through also when other trips' deployments refer to that vehicle or
\* driver, which keep referring to them afterwards.
C29_DeploymentReferences ==
    /\ \A dep \in db.deployments : RefersToStored(db, dep)
    /\ \A t \in TripArgs, p \in PlateArgs, d \in DriverArgs :
          LET r == assign_vehicle_and_driver(db, t, p, d)
          IN  /\ \A dep \in r.db.deployments : RefersToStored(r.db, dep)
              /\ ((\A v \in db.vehicles : v.license_plate # p) \/ (\A x \in db.drivers : x.name # d)) =>
                    r.db.deployments = db.deployments
              /\ ((\E trip \in db.daily_trips : trip.display_name = t)
                      /\ (\E v \in db.vehicles : v.license_plate = p)
                      /\ (\E x \in db.drivers : x.name = d)) =>
                    /\ r.result[1] \in {"Assigned vehicle ", "Updated deployment: trip '"}
                    /\ \A dep \in db.deployments :
                          (\E trip \in db.daily_trips : trip.display_name # t /\ trip.trip_id = dep.trip_id) =>
                              dep \in r.db.deployments

\* the vehicle and the driver of the deployment of one trip have just been assigned to a
\* second trip as well: two deployments refer to one vehicle and one driver
C29_Witness ==
    /\ last.op = "assign_vehicle_and_driver"
    /\ last.result[1] = "Assigned vehicle "
    /\ \E d1, d2 \in db.deployments :
          /\ d1.trip_id # d2.trip_id
          /\ d1.vehicle_id = d2.vehicle_id
          /\ d1.driver_id = d2.driver_id
          /\ RefersToStored(db, d1)

-----------------------------------------------------------------------------
(* Properties of the display name of a route, checked under SpecRoute *)

\* the path of that name is stored and has a stop
PathWithStops(S, path_name) ==
    \E p \in S.paths : p.path_name = path_name /\ \E ps \in S.path_stops : ps.path_id = p.path_id

\* C30: no two stored routes carry one display name; and create_route on a stored path with
\* stops answers "already exists" and leaves the store unchanged whenever a stored route has
\* the display name "{path_name} - {shift_time}", whatever the direction of that route and
\* whatever path it belongs to.
C30_RouteUniqueness ==
    /\ \A r1, r2 \in db.routes : r1.route_display_name = r2.route_display_name => r1 = r2
    /\ \A path_name \in CollidingPathArgs, shift_time \in CollidingShiftArgs, direction \in DirectionArgs :
          (/\ PathWithStops(db, path_name)
           /\ \E route \in db.routes : route.route_display_name = RouteDisplayName(path_name, shift_time)) =>
              LET r == create_route(db, path_name, shift_time, direction)
              IN  /\ r.result = <<"Route '", RouteDisplayName(path_name, shift_time), "' already exists.">>
                  /\ r.db = db
                  /\ ~r.raised

\* create_route for the path "Hub" at "X - 09:00", direction OUT, has just been answered with
\* "already exists" because of the IN route of another path, "Hub - X", at "09:00"
C30_Witness ==
    /\ last.op = "create_route"
    /\ last.args = <<"Hub", "X - 09:00", "OUT">>
    /\ last.result = <<"Route '", "Hub - X - 09:00", "' already exists.">>
    /\ \E route \in db.routes : \E p \in db.paths :
          /\ route.route_display_name = "Hub - X - 09:00"
          /\ route.direction = "IN"
          /\ route.shift_time = "09:00"
          /\ p.path_id = route.path_id
          /\ p.path_name = "Hub - X"

====
